---- MODULE Spec2Model ----
(***************************************************************************)
(* A model of the sequaljs ProForma parser (ProFormaParser.parse), the     *)
(* modification value sub-parser (ModificationValue), the Sequence         *)
(* assembly (Sequence constructor, Sequence.fromProforma) and the          *)
(* serializer (Sequence.toProforma, Modification.toProforma).              *)
(*                                                                         *)
(* A JavaScript string is a sequence of one-character strings; positions   *)
(* in the operators below are 0-based, as in the source.  A value that may *)
(* be null/undefined is a sequence of length 0 (absent) or 1 (present).    *)
(***************************************************************************)
EXTENDS Integers, Sequences, FiniteSets, TLC

\* ------------------------------------------------------------------------
\* JavaScript string primitives
\* ------------------------------------------------------------------------

Null == <<>>

Some(v) == <<v>>

Min(S) == CHOOSE x \in S : \A y \in S : x <= y

\* the least element of S, or d when S is empty
MinOr(S, d) == IF S = {} THEN d ELSE Min(S)

Max(S) == CHOOSE x \in S : \A y \in S : x >= y

\* the greatest element of S, or d when S is empty
MaxOr(S, d) == IF S = {} THEN d ELSE Max(S)

\* s[i]
At(s, i) == s[i + 1]

\* s.substring(a, b): both ends clamped to [0, length], swapped when a > b
Clamp(s, a) == IF a < 0 THEN 0 ELSE IF a > Len(s) THEN Len(s) ELSE a

SubstringClamped(s, ca, cb) ==
  IF ca < cb THEN SubSeq(s, ca + 1, cb)
  ELSE IF cb < ca THEN SubSeq(s, cb + 1, ca)
  ELSE <<>>

Substring(s, a, b) == SubstringClamped(s, Clamp(s, a), Clamp(s, b))

\* s.substring(a)
SubstringFrom(s, a) == Substring(s, a, Len(s))

\* s.startsWith(p)
StartsWith(s, p) == Len(p) <= Len(s) /\ SubSeq(s, 1, Len(p)) = p

\* s.endsWith(p)
EndsWith(s, p) == Len(p) <= Len(s) /\ SubSeq(s, Len(s) - Len(p) + 1, Len(s)) = p

\* s.indexOf(p, from) for a non-empty p; -1 when absent
IndexOf(s, p, from) ==
  MinOr({i \in from .. (Len(s) - Len(p)) : SubSeq(s, i + 1, i + Len(p)) = p}, -1)

\* s.includes(p)
Includes(s, p) == IndexOf(s, p, 0) # -1

\* s.split(sep) for a non-empty separator: every piece, in order
RECURSIVE Split(_, _)
SplitAt(s, sep, k) ==
  IF k = -1 THEN <<s>>
  ELSE <<Substring(s, 0, k)>> \o Split(SubstringFrom(s, k + Len(sep)), sep)

Split(s, sep) == SplitAt(s, sep, IndexOf(s, sep, 0))

\* the first two elements of a list
FirstTwo(all) == IF Len(all) <= 2 THEN all ELSE SubSeq(all, 1, 2)

\* s.split(sep, 2): the first two pieces of the full split (the rest is dropped)
Split2(s, sep) == FirstTwo(Split(s, sep))

\* pieces.join(sep)
RECURSIVE Join(_, _)
Join(pieces, sep) ==
  IF pieces = <<>> THEN <<>>
  ELSE IF Len(pieces) = 1 THEN pieces[1]
  ELSE pieces[1] \o sep \o Join(Tail(pieces), sep)

\* character classes of the regular expressions
Digits == {"0", "1", "2", "3", "4", "5", "6", "7", "8", "9"}

UpperLetters ==
  {"A", "B", "C", "D", "E", "F", "G", "H", "I", "J", "K", "L", "M",
   "N", "O", "P", "Q", "R", "S", "T", "U", "V", "W", "X", "Y", "Z"}

LowerLetters ==
  {"a", "b", "c", "d", "e", "f", "g", "h", "i", "j", "k", "l", "m",
   "n", "o", "p", "q", "r", "s", "t", "u", "v", "w", "x", "y", "z"}

\* [A-Za-z0-9]
AlphaNum == UpperLetters \cup LowerLetters \cup Digits

\* /\s/
WhiteSpace == {" "}

AllIn(s, S) == \A i \in 1 .. Len(s) : s[i] \in S

\* c.toUpperCase() on one character
UpperChar(c) ==
  CASE c = "a" -> "A" [] c = "b" -> "B" [] c = "c" -> "C" [] c = "d" -> "D"
    [] c = "e" -> "E" [] c = "f" -> "F" [] c = "g" -> "G" [] c = "h" -> "H"
    [] c = "i" -> "I" [] c = "j" -> "J" [] c = "k" -> "K" [] c = "l" -> "L"
    [] c = "m" -> "M" [] c = "n" -> "N" [] c = "o" -> "O" [] c = "p" -> "P"
    [] c = "q" -> "Q" [] c = "r" -> "R" [] c = "s" -> "S" [] c = "t" -> "T"
    [] c = "u" -> "U" [] c = "v" -> "V" [] c = "w" -> "W" [] c = "x" -> "X"
    [] c = "y" -> "Y" [] c = "z" -> "Z" [] OTHER -> c

\* s.toUpperCase()
ToUpperCase(s) == [i \in 1 .. Len(s) |-> UpperChar(s[i])]

\* ------------------------------------------------------------------------
\* JavaScript numbers written in decimal notation.
\* A number is NaN or a sign, an integer part and the fraction digits with
\* the trailing zeros removed, which is what String(number) prints back.
\* ------------------------------------------------------------------------

DigitVal(c) ==
  CASE c = "0" -> 0 [] c = "1" -> 1 [] c = "2" -> 2 [] c = "3" -> 3
    [] c = "4" -> 4 [] c = "5" -> 5 [] c = "6" -> 6 [] c = "7" -> 7
    [] c = "8" -> 8 [] c = "9" -> 9

DigitChar(d) ==
  CASE d = 0 -> "0" [] d = 1 -> "1" [] d = 2 -> "2" [] d = 3 -> "3"
    [] d = 4 -> "4" [] d = 5 -> "5" [] d = 6 -> "6" [] d = 7 -> "7"
    [] d = 8 -> "8" [] d = 9 -> "9"

\* the length of the longest run of digits of s that starts at index from
RECURSIVE DigitRun(_, _)
DigitRun(s, from) ==
  IF from < Len(s) /\ At(s, from) \in Digits THEN 1 + DigitRun(s, from + 1) ELSE 0

RECURSIVE DigitsToNat(_)
DigitsToNat(ds) ==
  IF ds = <<>> THEN 0
  ELSE 10 * DigitsToNat(SubSeq(ds, 1, Len(ds) - 1)) + DigitVal(ds[Len(ds)])

RECURSIVE NatToDigits(_)
NatToDigits(n) ==
  IF n < 10 THEN <<DigitChar(n)>>
  ELSE NatToDigits(n \div 10) \o <<DigitChar(n % 10)>>

RECURSIVE StripTrailingZeros(_)
StripTrailingZeros(ds) ==
  IF ds # <<>> /\ ds[Len(ds)] = "0"
  THEN StripTrailingZeros(SubSeq(ds, 1, Len(ds) - 1))
  ELSE ds

NaN == [nan |-> TRUE, neg |-> FALSE, int |-> 0, frac |-> <<>>]

MkNumStripped(neg, int, f) ==
  [nan |-> FALSE, neg |-> neg /\ (int # 0 \/ f # <<>>), int |-> int, frac |-> f]

MkNum(neg, int, frac) == MkNumStripped(neg, int, StripTrailingZeros(frac))

\* the length of the sign of a number text
SignLen(s) == IF s # <<>> /\ s[1] \in {"+", "-"} THEN 1 ELSE 0

\* the number with nInt integer digits from index p0 and nFrac fraction digits
ParseFloatParts(s, p0, nInt, nFrac) ==
  IF nInt = 0 /\ nFrac = 0 THEN NaN
  ELSE MkNum(s # <<>> /\ s[1] = "-",
             DigitsToNat(Substring(s, p0, p0 + nInt)),
             Substring(s, p0 + nInt + 1, p0 + nInt + 1 + nFrac))

ParseFloatAt(s, p0, nInt) ==
  ParseFloatParts(s, p0, nInt,
                  IF p0 + nInt < Len(s) /\ At(s, p0 + nInt) = "."
                  THEN DigitRun(s, p0 + nInt + 1) ELSE 0)

\* parseFloat(s): the longest prefix [+-]digits[.digits]; NaN without a digit
ParseFloat(s) == ParseFloatAt(s, SignLen(s), DigitRun(s, SignLen(s)))

\* parseInt(s) of a digit string
ParseInt(s) == DigitsToNat(s)

\* a number in a boolean context: NaN and 0 are falsy
Truthy(n) == ~n.nan /\ (n.int # 0 \/ n.frac # <<>>)

IsPositive(n) == Truthy(n) /\ ~n.neg

IsNegative(n) == Truthy(n) /\ n.neg

\* String(n) / `${n}`
NumToString(n) ==
  IF n.nan THEN <<"N", "a", "N">>
  ELSE (IF n.neg THEN <<"-">> ELSE <<>>) \o NatToDigits(n.int)
       \o (IF n.frac = <<>> THEN <<>> ELSE <<".">> \o n.frac)

\* ------------------------------------------------------------------------
\* Literal strings of the source
\* ------------------------------------------------------------------------

STR_BRANCH == <<"B", "R", "A", "N", "C", "H">>

STR_HASH_BRANCH == <<"#">> \o STR_BRANCH

STR_XL == <<"X", "L">>

STR_MASS == <<"M", "A", "S", "S">>

STR_INFO == <<"I", "N", "F", "O">>

STR_OBS == <<"O", "B", "S">>

STR_GLYCAN == <<"G", "L", "Y", "C", "A", "N">>

STR_GNO == <<"G", "N", "O">>

STR_FORMULA == <<"F", "O", "R", "M", "U", "L", "A">>

STR_GLYCAN_PREFIX == <<"G", "l", "y", "c", "a", "n", ":">>

\* ModificationValue.KNOWN_SOURCES
KNOWN_SOURCES ==
  { <<"U", "n", "i", "m", "o", "d">>, <<"U">>,
    <<"P", "S", "I", "-", "M", "O", "D">>, <<"M">>,
    <<"R", "E", "S", "I", "D">>, <<"R">>,
    <<"X", "L", "-", "M", "O", "D">>, <<"X">>,
    <<"X", "L", "M", "O", "D">>,
    <<"G", "N", "O">>, <<"G">>,
    <<"M", "O", "D">>,
    <<"O", "b", "s">>,
    <<"F", "o", "r", "m", "u", "l", "a">>, STR_FORMULA,
    STR_GLYCAN, <<"G", "l", "y", "c", "a", "n">>,
    <<"I", "n", "f", "o">>, STR_INFO,
    STR_OBS,
    STR_XL }

\* the sources under which a '#' suffix is a crosslink id
XL_SOURCES ==
  { STR_XL, <<"X", "L", "M", "O", "D">>, <<"X", "L", "-", "M", "O", "D">>, <<"X">> }

\* ------------------------------------------------------------------------
\* PipeValue
\* ------------------------------------------------------------------------

\* a present, non-empty string: the truthiness test of an optional string
TruthyStr(opt) == opt # Null /\ opt[1] # <<>>

\* the indices of s where /\(([\d.]+)\)/ matches
ScoreStarts(s) ==
  {i \in 0 .. Len(s) - 1 :
     /\ At(s, i) = "("
     /\ \E n \in 1 .. Len(s) - i - 1 :
          /\ AllIn(Substring(s, i + 1, i + 1 + n), Digits \cup {"."})
          /\ i + 1 + n < Len(s)
          /\ At(s, i + 1 + n) = ")"}

\* the match at index i whose group 1 has n characters
ScoreMatchAt(s, i, n) ==
  Some([index |-> i, whole |-> Substring(s, i, i + n + 2),
        score |-> Substring(s, i + 1, i + 1 + n)])

ScoreMatchFrom(s, i) ==
  ScoreMatchAt(s, i, Min({k \in 1 .. Len(s) - i - 2 : At(s, i + 1 + k) = ")"}))

ScoreMatchIn(s, hits) == IF hits = {} THEN Null ELSE ScoreMatchFrom(s, Min(hits))

\* /\(([\d.]+)\)/.exec(s): absent, or the match with its index and group 1
ScoreMatch(s) == ScoreMatchIn(s, ScoreStarts(s))

WithScoreMatch(pv, group, m) ==
  IF m = Null THEN [pv EXCEPT !.ambiguityGroup = Some(group)]
  ELSE [pv EXCEPT
          !.localizationScore = Some(ParseFloat(m[1].score)),
          !.ambiguityGroup =
             Some(Substring(group, 0, m[1].index)
                  \o SubstringFrom(group, m[1].index + Len(m[1].whole)))]

\* pipeVal.localizationScore / pipeVal.ambiguityGroup after
\*   scoreMatch = /\(([\d.]+)\)/.exec(group); group = group.replace(scoreMatch[0], "")
WithScore(pv, group) == WithScoreMatch(pv, group, ScoreMatch(group))

\* the fields of a PipeValue as the constructor sets them
BlankPipeValue(value, valueType) ==
  [value |-> value, type |-> valueType,
   crosslinkId |-> Null, isBranch |-> FALSE, isBranchRef |-> FALSE,
   isCrosslinkRef |-> FALSE, ambiguityGroup |-> Null,
   isAmbiguityRef |-> FALSE, localizationScore |-> Null,
   source |-> Null, mass |-> Null, observedMass |-> Null]

\* PipeValue._extractProperties, the ambiguity case: g is the text after '#'
ExtractAmbiguity(blank, g, m) ==
  IF Includes(g, <<"(">>) /\ Includes(g, <<")">>) /\ m # Null
  THEN [blank EXCEPT !.ambiguityGroup = Some(g),
                     !.localizationScore = Some(ParseFloat(m[1].score))]
  ELSE [blank EXCEPT !.ambiguityGroup = Some(g)]

\* PipeValue._extractProperties; parts is value.split("#", 2)
ExtractProperties(blank, parts) ==
  IF blank.type = "crosslink" /\ Includes(blank.value, <<"#">>)
  THEN IF parts[2] = STR_BRANCH
       THEN [blank EXCEPT !.isBranch = TRUE]
       ELSE [blank EXCEPT !.crosslinkId = Some(parts[2])]
  ELSE IF blank.type = "ambiguity" /\ Includes(blank.value, <<"#">>)
  THEN ExtractAmbiguity(blank, parts[2], ScoreMatch(parts[2]))
  ELSE blank

\* PipeValue constructor, with _extractProperties
NewPipeValue(value, valueType) ==
  ExtractProperties(BlankPipeValue(value, valueType), Split2(value, <<"#">>))

HashRefAmbiguity(pv, group) == IF group # <<>> THEN WithScore(pv, group) ELSE pv

\* the fields set on the pipe value of a component that starts with '#'
HashRefFields(pv, value) ==
  IF pv.type = "branch"
  THEN [pv EXCEPT !.isBranchRef = TRUE, !.isBranch = TRUE]
  ELSE IF pv.type = "crosslink"
  THEN [pv EXCEPT !.isCrosslinkRef = TRUE, !.isAmbiguityRef = FALSE,
                  !.crosslinkId = Some(SubstringFrom(value, 1)),
                  !.ambiguityGroup = Null]
  ELSE HashRefAmbiguity([pv EXCEPT !.isCrosslinkRef = FALSE, !.isAmbiguityRef = TRUE,
                                   !.crosslinkId = Null,
                                   !.ambiguityGroup = Some(SubstringFrom(value, 1))],
                        SubstringFrom(value, 1))

\* a component that starts with '#': '#BRANCH', '#XL...' or '#label(score)'
HashRefPipeValue(value) ==
  HashRefFields(NewPipeValue(value,
                             IF value = STR_HASH_BRANCH THEN "branch"
                             ELSE IF StartsWith(SubstringFrom(value, 1), STR_XL)
                             THEN "crosslink"
                             ELSE "ambiguity"),
                value)

HashSuffixFields(pv, suffix) ==
  IF pv.type = "branch" THEN [pv EXCEPT !.isBranch = TRUE]
  ELSE IF pv.type = "crosslink" THEN [pv EXCEPT !.crosslinkId = Some(suffix)]
  ELSE WithScore(pv, suffix)

\* body#suffix without a source: branch, crosslink or ambiguity group
HashSuffixPipeValue(body, suffix) ==
  HashSuffixFields(NewPipeValue(body,
                                IF suffix = STR_BRANCH THEN "branch"
                                ELSE IF StartsWith(suffix, STR_XL) THEN "crosslink"
                                ELSE "ambiguity"),
                   suffix)

\* the pipe value kind chosen by an upper-cased source
SourceType(up) ==
  IF up = STR_INFO THEN "info_tag"
  ELSE IF up = STR_OBS THEN "observed_mass"
  ELSE IF up = STR_GLYCAN THEN "glycan"
  ELSE IF up = STR_GNO \/ up = <<"G">> THEN "gap"
  ELSE IF up = STR_FORMULA THEN "formula"
  ELSE "synonym"

SourcedFields(pv, source, value) ==
  [pv EXCEPT !.source = Some(source),
             !.observedMass = IF pv.type = "observed_mass"
                              THEN Some(ParseFloat(value)) ELSE @]

\* SOURCE:value without '#': the pipe value kind chosen by the source
SourcedPipeValue(source, value) ==
  SourcedFields(NewPipeValue(value, SourceType(ToUpperCase(source))), source, value)

MassFields(pv0, body, hp) ==
  IF ~Includes(body, <<"#">>) THEN pv0
  ELSE IF hp[2] = STR_BRANCH
  THEN [pv0 EXCEPT !.isBranch = TRUE, !.type = "branch"]
  ELSE IF StartsWith(hp[2], STR_XL)
  THEN [pv0 EXCEPT !.crosslinkId = Some(hp[2]), !.type = "crosslink"]
  ELSE WithScore([pv0 EXCEPT !.type = "ambiguity"], hp[2])

\* MASS:body, where whole is the text that is split at '#'
MassPipeValue(body, whole) ==
  MassFields([NewPipeValue(body, "mass") EXCEPT !.mass = Some(ParseFloat(body))],
             body, Split2(whole, <<"#">>))

\* ------------------------------------------------------------------------
\* ModificationValue
\* ------------------------------------------------------------------------

EmptyModValue(mass) ==
  [primaryValue |-> <<>>, source |-> Null, mass |-> mass, pipeValues |-> <<>>]

\* a list that takes each new pipe value at its head
PushPipeFront(mv, pv) == [mv EXCEPT !.pipeValues = <<pv>> \o @]

PushPipe(mv, pv) == [mv EXCEPT !.pipeValues = Append(@, pv)]

\* a sign followed, somewhere, by a digit: /^[+-]/ and /\d/
IsSignedNumber(value) ==
  /\ StartsWith(value, <<"+">>) \/ StartsWith(value, <<"-">>)
  /\ \E i \in 1 .. Len(value) : value[i] \in Digits

\* the pipe value of a text without source or '#': a mass or a synonym
PlainPipeValue(value, isMass) ==
  [NewPipeValue(value, IF isMass THEN "mass" ELSE "synonym") EXCEPT
     !.mass = IF isMass THEN Some(ParseFloat(value)) ELSE @]

\* the fields set on the pipe value of SOURCE:body#suffix
SourcedHashFields(pv, source, suffix) ==
  [(IF pv.type = "crosslink" THEN [pv EXCEPT !.crosslinkId = Some(suffix)]
    ELSE IF pv.type = "branch" THEN [pv EXCEPT !.isBranch = TRUE]
    ELSE IF pv.type = "ambiguity" THEN WithScore(pv, suffix)
    ELSE pv) EXCEPT !.source = Some(source)]

\* the pipe value type of SOURCE:body#suffix as a primary value
PrimaryHashType(source, suffix) ==
  IF source \in XL_SOURCES THEN "crosslink"
  ELSE IF suffix = STR_BRANCH THEN "branch"
  ELSE "ambiguity"

\* the pipe value type of SOURCE:body#suffix as a later component
ComponentHashType(source, up, suffix) ==
  IF source \in XL_SOURCES THEN "crosslink"
  ELSE IF suffix = STR_BRANCH THEN "branch"
  ELSE IF up = STR_GLYCAN THEN "glycan"
  ELSE IF up = STR_GNO \/ up = <<"G">> THEN "gap"
  ELSE IF up = STR_FORMULA THEN "formula"
  ELSE "ambiguity"

\* _processPrimaryValue, SOURCE:body#suffix with a known source
PrimaryKnownHash(mv, source, pvParts) ==
  PushPipe([mv EXCEPT !.source = Some(source), !.primaryValue = pvParts[1]],
           SourcedHashFields(NewPipeValue(pvParts[1],
                                          PrimaryHashType(source, pvParts[2])),
                             source, pvParts[2]))

\* _processPrimaryValue, MASS:body; pvParts is value.split("#", 2)
PrimaryMass(mv, value, body, pv, pvParts) ==
  IF Includes(body, <<"#">>)
  THEN PushPipe([mv EXCEPT !.primaryValue = pvParts[1],
                          !.mass = Some(ParseFloat(body))],
                [pv EXCEPT !.value = pvParts[1]])
  ELSE PushPipe([mv EXCEPT !.primaryValue = value,
                          !.mass = Some(ParseFloat(body))],
                pv)

\* _processPrimaryValue, a value with ':'; parts is value.split(":", 2)
PrimarySourced(mv, value, parts) ==
  IF parts[1] \in KNOWN_SOURCES
  THEN IF Includes(parts[2], <<"#">>)
       THEN PrimaryKnownHash(mv, parts[1], Split2(parts[2], <<"#">>))
       ELSE PushPipe([mv EXCEPT !.source = Some(parts[1]),
                               !.primaryValue = parts[2]],
                     SourcedPipeValue(parts[1], parts[2]))
  ELSE IF ToUpperCase(parts[1]) = STR_MASS
  THEN PrimaryMass(mv, value, parts[2], MassPipeValue(parts[2], value),
                   Split2(value, <<"#">>))
  ELSE PushPipe([mv EXCEPT !.primaryValue = value], PlainPipeValue(value, FALSE))

PrimaryHashSuffixOf(mv, parts, pv) ==
  IF StartsWith(parts[1], <<"+">>) \/ StartsWith(parts[1], <<"-">>)
  THEN PushPipe([mv EXCEPT !.primaryValue = parts[1],
                          !.mass = Some(ParseFloat(parts[1]))],
                [pv EXCEPT !.mass = Some(ParseFloat(parts[1]))])
  ELSE PushPipe([mv EXCEPT !.primaryValue = parts[1]], pv)

\* _processPrimaryValue, body#suffix without ':'; parts is value.split("#", 2)
PrimaryHashSuffix(mv, parts) ==
  PrimaryHashSuffixOf(mv, parts, HashSuffixPipeValue(parts[1], parts[2]))

\* ModificationValue._processPrimaryValue
ProcessPrimaryValue(mv, value) ==
  IF StartsWith(value, <<"#">>)
  THEN PushPipe([mv EXCEPT !.primaryValue = <<>>], HashRefPipeValue(value))
  ELSE IF Includes(value, <<":">>)
  THEN PrimarySourced(mv, value, Split2(value, <<":">>))
  ELSE IF Includes(value, <<"#">>)
  THEN PrimaryHashSuffix(mv, Split2(value, <<"#">>))
  ELSE PushPipe([mv EXCEPT !.primaryValue = value,
                          !.mass = IF IsSignedNumber(value)
                                   THEN Some(ParseFloat(value)) ELSE @],
                PlainPipeValue(value, IsSignedNumber(value)))

\* _processPipeComponent, SOURCE:body#suffix with a known source
ComponentKnownHash(mv, source, pvParts) ==
  PushPipe(mv, SourcedHashFields(
                 NewPipeValue(pvParts[1],
                              ComponentHashType(source, ToUpperCase(source), pvParts[2])),
                 source, pvParts[2]))

\* _processPipeComponent, a component with ':'; parts is component.split(":", 2)
ComponentSourced(mv, component, parts) ==
  IF parts[1] \in KNOWN_SOURCES
  THEN IF Includes(parts[2], <<"#">>)
       THEN ComponentKnownHash(mv, parts[1], Split2(parts[2], <<"#">>))
       ELSE PushPipe(mv, SourcedPipeValue(parts[1], parts[2]))
  ELSE IF ToUpperCase(parts[1]) = STR_MASS
  THEN PushPipe(mv, MassPipeValue(parts[2], parts[2]))
  ELSE PushPipe(mv, PlainPipeValue(component, FALSE))

ComponentHashSuffixOf(mv, parts, pv) ==
  IF IsSignedNumber(parts[1])
  THEN PushPipe(mv, [pv EXCEPT !.mass = Some(ParseFloat(parts[1]))])
  ELSE PushPipe(mv, pv)

\* _processPipeComponent, body#suffix without ':'; parts is component.split("#", 2)
ComponentHashSuffix(mv, parts) ==
  ComponentHashSuffixOf(mv, parts, HashSuffixPipeValue(parts[1], parts[2]))

\* ModificationValue._processPipeComponent
ProcessPipeComponent(mv, component) ==
  IF StartsWith(component, <<"#">>)
  THEN PushPipe(mv, HashRefPipeValue(component))
  ELSE IF Includes(component, <<":">>)
  THEN ComponentSourced(mv, component, Split2(component, <<":">>))
  ELSE IF Includes(component, <<"#">>)
  THEN ComponentHashSuffix(mv, Split2(component, <<"#">>))
  ELSE PushPipe(mv, PlainPipeValue(component, IsSignedNumber(component)))

RECURSIVE ProcessPipeComponents(_, _)
ProcessPipeComponents(mv, components) ==
  IF components = <<>> THEN mv
  ELSE ProcessPipeComponents(ProcessPipeComponent(mv, components[1]), Tail(components))

\* new ModificationValue(value, mass): constructor and _parseValue
ModificationValue(value, mass) ==
  LET components == IF Includes(value, <<"|">>) THEN Split(value, <<"|">>) ELSE <<value>>
  IN  ProcessPipeComponents(ProcessPrimaryValue(EmptyModValue(mass), components[1]),
                            Tail(components))

\* ------------------------------------------------------------------------
\* Modification
\* ------------------------------------------------------------------------

\* v || null for an optional number: 0 and NaN become null
OrNullNat(opt) == IF opt # Null /\ opt[1] # 0 THEN opt ELSE Null

OrNullNum(opt) == IF opt # Null /\ Truthy(opt[1]) THEN opt ELSE Null

\* the optional constructor arguments of Modification, at their defaults; every
\* caller that passes modValue passes `new ModificationValue(str)`, and the
\* argument is held as that str
ModDefaults ==
  [modType |-> "static", labile |-> FALSE, mass |-> MkNum(FALSE, 0, <<>>),
   crosslinkId |-> Null, isCrosslinkRef |-> FALSE, isBranchRef |-> FALSE,
   isBranch |-> FALSE, ambiguityGroup |-> Null, isAmbiguityRef |-> FALSE,
   inRange |-> FALSE, rangeStart |-> Null, rangeEnd |-> Null,
   localizationScore |-> Null, modValue |-> Null]

\* Modification constructor; a is the record of its optional arguments
ModificationFields(value, a, xlId, mt1) ==
  [value |-> value,
   mass |-> a.mass,
   crosslinkId |-> IF TruthyStr(xlId) THEN xlId ELSE Null,
   isCrosslinkRef |-> a.isCrosslinkRef,
   isBranchRef |-> a.isBranchRef,
   isBranch |-> a.isBranch,
   isAmbiguityRef |-> a.isAmbiguityRef,
   ambiguityGroup |-> IF TruthyStr(a.ambiguityGroup) THEN a.ambiguityGroup ELSE Null,
   inRange |-> a.inRange,
   rangeStart |-> OrNullNat(a.rangeStart),
   rangeEnd |-> OrNullNat(a.rangeEnd),
   localizationScore |-> OrNullNum(a.localizationScore),
   modValue |-> ModificationValue(IF a.modValue # Null THEN a.modValue[1] ELSE value,
                                  IF a.modValue # Null THEN Null ELSE Some(a.mass)),
   modType |-> IF a.inRange THEN "ambiguous" ELSE mt1,
   labile |-> a.labile \/ mt1 = "labile"]

\* the crosslink id: the value after '#' for a crosslink reference
ModCrosslinkId(value, a) ==
  IF StartsWith(value, <<"#">>) /\ a.isCrosslinkRef
  THEN Some(SubstringFrom(value, 1))
  ELSE a.crosslinkId

\* the modType after the crosslink test, before the inRange test
ModTypeWith(a, xlId) ==
  IF (TruthyStr(xlId) \/ a.isCrosslinkRef) /\ a.modType # "crosslink"
  THEN "crosslink" ELSE a.modType

Modification(value, a) ==
  ModificationFields(value, a, ModCrosslinkId(value, a),
                     ModTypeWith(a, ModCrosslinkId(value, a)))

\* |n| in hundredths, rounded half up; f3 is the first three fraction digits
Hundredths(n, f3) ==
  n.int * 100 + DigitsToNat(SubSeq(f3, 1, 2)) + (IF DigitVal(f3[3]) >= 5 THEN 1 ELSE 0)

TwoDigits(ds) == IF Len(ds) = 1 THEN <<"0">> \o ds ELSE ds

ToFixed2Of(n, hundredths) ==
  (IF n.neg THEN <<"-">> ELSE <<>>)
  \o NatToDigits(hundredths \div 100) \o <<".">>
  \o TwoDigits(NatToDigits(hundredths % 100))

\* n.toFixed(2); the digits after the second are rounded half up in decimal
ToFixed2(n) ==
  IF n.nan THEN <<"N", "a", "N">>
  ELSE ToFixed2Of(n, Hundredths(n, SubSeq(n.frac \o <<"0", "0", "0">>, 1, 3)))

\* the text of one pipe value in Modification.toProforma, before de-duplication
PipePart(pv) ==
  LET massTruthy == pv.mass # Null /\ Truthy(pv.mass[1])
      body ==
        IF TruthyStr(pv.source)
        THEN pv.source[1] \o <<":">> \o
             (IF massTruthy
              THEN IF IsPositive(pv.mass[1])
                   THEN <<"+">> \o NumToString(pv.mass[1])
                   ELSE <<"-">> \o NumToString(pv.mass[1])
              ELSE pv.value)
        ELSE IF massTruthy
        THEN IF IsPositive(pv.mass[1])
             THEN <<"+">> \o NumToString(pv.mass[1])
             ELSE NumToString(pv.mass[1])
        ELSE IF pv.type = "synonym" THEN pv.value
        ELSE IF ~Includes(pv.value, <<"#">>) THEN pv.value
        ELSE <<>>
      suffix ==
        IF pv.type = "crosslink" /\ TruthyStr(pv.crosslinkId)
        THEN <<"#">> \o pv.crosslinkId[1]
        ELSE IF pv.type = "branch" /\ pv.isBranch
        THEN STR_HASH_BRANCH
        ELSE IF pv.type = "ambiguity" /\ TruthyStr(pv.ambiguityGroup)
        THEN <<"#">> \o pv.ambiguityGroup[1] \o
             (IF pv.localizationScore # Null
              THEN <<"(">> \o ToFixed2(pv.localizationScore[1]) \o <<")">>
              ELSE <<>>)
        ELSE <<>>
  IN  body \o suffix

\* what the loop of Modification.toProforma adds to `seen` besides the parts
PipeSeen(pv) ==
  IF TruthyStr(pv.source) /\ pv.mass # Null /\ Truthy(pv.mass[1])
  THEN IF IsPositive(pv.mass[1])
       THEN {<<"+">> \o NumToString(pv.mass[1])}
       ELSE {NumToString(pv.mass[1])}
  ELSE {}

RECURSIVE PipeParts(_, _, _)
PipePartsStep(pvs, parts, part, seen1) ==
  IF part \in seen1
  THEN PipeParts(Tail(pvs), parts, seen1)
  ELSE PipeParts(Tail(pvs), Append(parts, part), seen1 \cup {part})

\* the loop of Modification.toProforma over the pipe values
PipeParts(pvs, parts, seen) ==
  IF pvs = <<>> THEN parts
  ELSE PipePartsStep(pvs, parts, PipePart(pvs[1]), seen \cup PipeSeen(pvs[1]))

\* ModificationValue.infoTags: the values of the pipe values of type info_tag
InfoTags(mv) ==
  LET tags == SelectSeq(mv.pipeValues, LAMBDA pv : pv.type = "info_tag")
  IN  [k \in 1 .. Len(tags) |-> tags[k].value]

\* Modification.toProforma
ModToProforma(mod) == Join(PipeParts(mod.modValue.pipeValues, <<>>, {}), <<"|">>)

\* Modification.hasAmbiguity
HasAmbiguity(mod) ==
  \E i \in 1 .. Len(mod.modValue.pipeValues) :
     mod.modValue.pipeValues[i].type = "ambiguity"

\* GlobalModification constructor: the Modification fields plus the targets
GlobalModification(value, targetResidues, globalModType) ==
  [mod |-> Modification(value, [ModDefaults EXCEPT
                                  !.modType = "global",
                                  !.modValue = Some(value)]),
   targetResidues |-> targetResidues,
   globalModType |-> globalModType]

\* a global modification written without adding brackets to its body
GlobalModToProformaBare(g) ==
  <<"<">> \o ModToProforma(g.mod)
  \o (IF g.globalModType = "isotope" THEN <<>>
      ELSE <<"@">> \o (IF g.targetResidues # Null
                       THEN Join(g.targetResidues[1], <<",">>) ELSE <<>>))
  \o <<">">>

\* the text of a global modification whose Modification.toProforma is modValue
GlobalModText(g, modValue) ==
  IF g.globalModType = "isotope"
  THEN <<"<">> \o modValue \o <<">">>
  ELSE <<"<">>
       \o (IF ~StartsWith(modValue, <<"[">>)
           THEN <<"[">> \o modValue \o <<"]">>
           ELSE modValue)
       \o <<"@">>
       \o (IF g.targetResidues # Null
           THEN Join(g.targetResidues[1], <<",">>)
           ELSE <<>>)
       \o <<">">>

\* GlobalModification.toProforma
GlobalModToProforma(g) == GlobalModText(g, ModToProforma(g.mod))

\* ------------------------------------------------------------------------
\* ProFormaParser
\* ------------------------------------------------------------------------

\* a label followed by rest: rest is empty or a parenthesised score
LabelTailRest(label, rest) ==
  IF rest = <<>> THEN Some([label |-> label, score |-> Null])
  ELSE IF /\ Len(rest) >= 3
          /\ rest[1] = "("
          /\ rest[Len(rest)] = ")"
          /\ AllIn(SubSeq(rest, 2, Len(rest) - 1), Digits \cup {"."})
  THEN Some([label |-> label, score |-> Some(SubSeq(rest, 2, Len(rest) - 1))])
  ELSE Null

LabelTailAt(t, n) ==
  IF n = 0 THEN Null ELSE LabelTailRest(Substring(t, 0, n), SubstringFrom(t, n))

\* [A-Za-z0-9]+ optionally followed by ([0-9.]+), up to the end of the string:
\* absent, or the label and the optional score text
LabelTail(t) ==
  LabelTailAt(t, Cardinality({k \in 1 .. Len(t) : AllIn(SubSeq(t, 1, k), AlphaNum)}))

\* MASS_SHIFT_PATTERN  /^[+-]\d+(\.\d+)?$/
MASS_SHIFT_PATTERN(s) ==
  /\ Len(s) >= 2
  /\ s[1] \in {"+", "-"}
  /\ \E n \in {DigitRun(s, 1)} :
         /\ n >= 1
         /\ \/ n + 1 = Len(s)
            \/ /\ At(s, n + 1) = "."
               /\ Len(s) > n + 2
               /\ AllIn(SubstringFrom(s, n + 2), Digits)

\* CROSSLINK_REF_PATTERN  /^#(XL[A-Za-z0-9]+)$/
CROSSLINK_REF_PATTERN(s) ==
  /\ Len(s) >= 4
  /\ StartsWith(s, <<"#">> \o STR_XL)
  /\ AllIn(SubstringFrom(s, 3), AlphaNum)

\* BRANCH_REF_PATTERN  /^#BRANCH$/
BRANCH_REF_PATTERN(s) == s = STR_HASH_BRANCH

\* the text id after the first '#', found at index k, as a crosslink id
CrosslinkTail(k, id) ==
  IF /\ k >= 1
     /\ ~Includes(id, <<"#">>)
     /\ Len(id) >= 3
     /\ StartsWith(id, STR_XL)
     /\ AllIn(SubstringFrom(id, 2), AlphaNum)
  THEN Some(id) ELSE Null

\* CROSSLINK_PATTERN  /^([^#]+)#(XL[A-Za-z0-9]+)$/: absent or the crosslink id
CROSSLINK_PATTERN(s) ==
  CrosslinkTail(IndexOf(s, <<"#">>, 0), SubstringFrom(s, IndexOf(s, <<"#">>, 0) + 1))

\* BRANCH_PATTERN  /^([^#]+)#BRANCH$/
BRANCH_PATTERN(s) ==
  /\ IndexOf(s, <<"#">>, 0) >= 1
  /\ SubstringFrom(s, IndexOf(s, <<"#">>, 0) + 1) = STR_BRANCH

\* the indices from `from` on of a '#' that a label and optional score follow
LabelStarts(s, from) ==
  {k \in from .. Len(s) - 1 :
     At(s, k) = "#" /\ LabelTail(SubstringFrom(s, k + 1)) # Null}

AmbiguityMatchAt(s, k, t) ==
  Some([body |-> Substring(s, 0, k), label |-> t.label, score |-> t.score])

AmbiguityMatchIn(s, ks) ==
  IF ks = {} THEN Null
  ELSE AmbiguityMatchAt(s, Min(ks), LabelTail(SubstringFrom(s, Min(ks) + 1))[1])

\* /(.+?)#([A-Za-z0-9]+)(?:\(([0-9.]+)\))?$/.exec(s)
AmbiguityMatch(s) == AmbiguityMatchIn(s, LabelStarts(s, 1))

AmbiguityRefMatchAt(t) == Some([label |-> t.label, score |-> t.score])

AmbiguityRefMatchIn(s, ks) ==
  IF ks = {} THEN Null
  ELSE AmbiguityRefMatchAt(LabelTail(SubstringFrom(s, Min(ks) + 1))[1])

\* /#([A-Za-z0-9]+)(?:\(([0-9.]+)\))?$/.exec(s)
AmbiguityRefMatch(s) == AmbiguityRefMatchIn(s, LabelStarts(s, 0))

\* the options of ProFormaParser._createModification, at their defaults
CreateDefaults ==
  [isTerminal |-> FALSE, isAmbiguous |-> FALSE, isLabile |-> FALSE,
   isUnknownPosition |-> FALSE, crosslinkId |-> Null, isCrosslinkRef |-> FALSE,
   isBranch |-> FALSE, isBranchRef |-> FALSE, isGap |-> FALSE,
   inRange |-> FALSE, rangeStart |-> Null, rangeEnd |-> Null]

\* the placement kind chosen from the options (proforma.ts, modType)
PlacementKind(o) ==
  IF o.isTerminal THEN "terminal"
  ELSE IF o.isAmbiguous THEN "ambiguous"
  ELSE IF o.isLabile THEN "labile"
  ELSE IF o.isUnknownPosition THEN "unknown_position"
  ELSE IF TruthyStr(o.crosslinkId) \/ o.isCrosslinkRef THEN "crosslink"
  ELSE IF o.isBranch \/ o.isBranchRef THEN "branch"
  ELSE IF o.isGap THEN "gap"
  ELSE "static"

\* which return statement of _createModification is taken
CreateKind(modStr, o, am, arm) ==
  IF MASS_SHIFT_PATTERN(modStr) /\ ~Includes(modStr, <<"#">>) THEN "massShift"
  ELSE IF /\ Includes(modStr, <<"#">>)
          /\ ~o.isCrosslinkRef /\ ~o.isBranch /\ ~o.isBranchRef
          /\ ~TruthyStr(o.crosslinkId)
  THEN IF am # Null /\ ~StartsWith(am[1].label, STR_XL) THEN "ambiguity"
       ELSE IF arm # Null /\ ~StartsWith(arm[1].label, STR_XL) THEN "ambiguityRef"
       ELSE "plain"
  ELSE "plain"

\* the value argument of the Modification that is returned
CreateValue(modStr, o, am, kind) ==
  IF kind = "massShift"
  THEN IF o.isGap \/ o.inRange THEN modStr
       ELSE <<"M", "a", "s", "s", ":">> \o modStr
  ELSE IF kind = "ambiguity" THEN am[1].body
  ELSE IF kind = "ambiguityRef" THEN <<>>
  ELSE modStr

\* the arguments every return statement passes: the range and the modValue
CreateRanged(modStr, o) ==
  [ModDefaults EXCEPT !.inRange = o.inRange,
                      !.rangeStart = o.rangeStart,
                      !.rangeEnd = o.rangeEnd,
                      !.modValue = Some(modStr)]

\* the optional arguments of the Modification that is returned
CreateArgs(modStr, o, am, arm, kind, ranged) ==
  IF kind = "massShift"
  THEN IF o.isGap
       THEN [ranged EXCEPT !.modType = "gap", !.mass = ParseFloat(modStr)]
       ELSE IF o.inRange
       THEN [ranged EXCEPT !.modType = "variable", !.inRange = TRUE,
                           !.mass = ParseFloat(modStr)]
       ELSE [ranged EXCEPT !.modType = "static", !.mass = ParseFloat(modStr)]
  ELSE IF kind = "ambiguity"
  THEN [ranged EXCEPT
          !.modType = "ambiguous",
          !.ambiguityGroup = Some(am[1].label),
          !.localizationScore =
             IF TruthyStr(am[1].score) THEN Some(ParseFloat(am[1].score[1])) ELSE Null]
  ELSE IF kind = "ambiguityRef"
  THEN [ranged EXCEPT
          !.modType = "ambiguous",
          !.ambiguityGroup = Some(arm[1].label),
          !.isAmbiguityRef = TRUE,
          !.localizationScore =
             IF TruthyStr(arm[1].score) THEN Some(ParseFloat(arm[1].score[1])) ELSE Null]
  ELSE [ranged EXCEPT
          !.modType = PlacementKind(o),
          !.labile = o.isLabile,
          !.crosslinkId = o.crosslinkId,
          !.isCrosslinkRef = o.isCrosslinkRef,
          !.isBranchRef = o.isBranchRef,
          !.isBranch = o.isBranch]

CreateModificationAs(modStr, o, am, arm, kind) ==
  Modification(CreateValue(modStr, o, am, kind),
               CreateArgs(modStr, o, am, arm, kind, CreateRanged(modStr, o)))

CreateModificationWith(modStr, o, am, arm) ==
  CreateModificationAs(modStr, o, am, arm, CreateKind(modStr, o, am, arm))

\* ProFormaParser._createModification
CreateModification(modStr, o) ==
  CreateModificationWith(modStr, o, AmbiguityMatch(modStr), AmbiguityRefMatch(modStr))

\* the bracket counting loop: from index j with `count` brackets open, advance
\* while count > 0; yields the index after the loop and the remaining count
RECURSIVE BracketEnd(_, _, _)
BracketEnd(s, j, count) ==
  IF j < Len(s) /\ count > 0
  THEN BracketEnd(s, j + 1,
                  IF At(s, j) = "[" THEN count + 1
                  ELSE IF At(s, j) = "]" THEN count - 1
                  ELSE count)
  ELSE [j |-> j, count |-> count]

\* n copies of x
Repeat(x, n) == [k \in 1 .. n |-> x]

\* the result of a phase that failed
Failure(msg) == [err |-> Some(msg)]

\* the body of a global modification: modPart without its enclosing [ ]
StripBrackets(modPart) ==
  IF StartsWith(modPart, <<"[">>) /\ EndsWith(modPart, <<"]">>)
  THEN Substring(modPart, 1, Len(modPart) - 1)
  ELSE modPart

\* the GlobalModification of the text between '<' and '>'; pieces is its
\* split at '@'
ParseGlobalMod(globalModStr, pieces) ==
  GlobalModification(
    IF Includes(globalModStr, <<"@">>) THEN StripBrackets(pieces[1]) ELSE globalModStr,
    IF Includes(globalModStr, <<"@">>) THEN Some(Split(pieces[2], <<",">>)) ELSE Null,
    IF Includes(globalModStr, <<"@">>) THEN "fixed" ELSE "isotope")

RECURSIVE ParseGlobalMods(_, _)
ParseGlobalModsAt(str, globalMods, endBracket) ==
  IF endBracket = -1
  THEN Failure("Unclosed global modification angle bracket")
  ELSE ParseGlobalMods(SubstringFrom(str, endBracket + 1),
         Append(globalMods,
                ParseGlobalMod(Substring(str, 1, endBracket),
                               Split(Substring(str, 1, endBracket), <<"@">>))))

\* phase 1, global modifications: the remaining string and the GlobalModifications
ParseGlobalMods(str, globalMods) ==
  IF ~StartsWith(str, <<"<">>)
  THEN [err |-> Null, str |-> str, globalMods |-> globalMods]
  ELSE ParseGlobalModsAt(str, globalMods, IndexOf(str, <<">">>, 0))

\* a '^' follows the group that the bracket loop b has closed
HasCaret(str, b) == b.j < Len(str) /\ At(str, b.j) = "^"

RECURSIVE UnknownPositionLoop(_, _, _)
UnknownGroupCounted(str, i, unknownPosMods, b, nDigits) ==
  IF b.count > 0
  THEN Failure("Unclosed bracket")
  ELSE UnknownPositionLoop(
         str,
         IF HasCaret(str, b) THEN b.j + 1 + nDigits ELSE b.j,
         unknownPosMods
         \o Repeat(Substring(str, i + 1, b.j - 1),
                   IF nDigits > 0
                   THEN ParseInt(Substring(str, b.j + 1, b.j + 1 + nDigits))
                   ELSE 1))

UnknownGroupRead(str, i, unknownPosMods, b) ==
  UnknownGroupCounted(str, i, unknownPosMods, b,
                      IF HasCaret(str, b) THEN DigitRun(str, b.j + 1) ELSE 0)

\* phase 2, the loop over the leading [...] groups: the index where the loop
\* stops and the bodies emitted under key -4
UnknownPositionLoop(str, i, unknownPosMods) ==
  IF i >= Len(str)
  THEN [err |-> Null, i |-> i, emitted |-> <<>>]
  ELSE IF At(str, i) # "["
  THEN IF unknownPosMods # <<>> /\ At(str, i) = "?"
       THEN [err |-> Null, i |-> i + 1, emitted |-> unknownPosMods]
       ELSE [err |-> Null, i |-> i, emitted |-> <<>>]
  ELSE UnknownGroupRead(str, i, unknownPosMods, BracketEnd(str, i + 1, 1))

RECURSIVE LabileLoop(_, _, _)
LabileGroup(str, bodies, j, modStr) ==
  IF j = -1 THEN Failure("Unclosed curly brace")
  ELSE IF ~StartsWith(modStr, STR_GLYCAN_PREFIX)
  THEN Failure("Labile modification must start with 'Glycan:'")
  ELSE LabileLoop(str, j + 1, Append(bodies, modStr))

\* phase 3, labile modifications: the index after the last {...} and the bodies
LabileLoop(str, i, bodies) ==
  IF ~(i < Len(str) /\ At(str, i) = "{")
  THEN [err |-> Null, i |-> i, bodies |-> bodies]
  ELSE LabileGroup(str, bodies, IndexOf(str, <<"}">>, i),
                   Substring(str, i + 1, IndexOf(str, <<"}">>, i)))

RECURSIVE TerminalBodies(_, _)
TerminalGroup(part, currentPos, b) ==
  (IF b.count = 0
   THEN <<Substring(part, currentPos + 1, b.j - 1)>>
   ELSE <<>>) \o TerminalBodies(part, b.j)

\* phases 4 and 5: the bodies of the balanced [...] groups of a terminal part
TerminalBodies(part, currentPos) ==
  IF currentPos >= Len(part) THEN <<>>
  ELSE IF At(part, currentPos) = "["
  THEN TerminalGroup(part, currentPos, BracketEnd(part, currentPos + 1, 1))
  ELSE TerminalBodies(part, currentPos + 1)

\* the bracket level before index i when scanning left to right
RECURSIVE LevelBefore(_, _)
LevelBefore(s, i) ==
  IF i = 0 THEN 0
  ELSE LevelBefore(s, i - 1)
       + (IF At(s, i - 1) = "[" THEN 1 ELSE IF At(s, i - 1) = "]" THEN -1 ELSE 0)

\* the bracket level after index i when scanning right to left
RECURSIVE LevelAfter(_, _)
LevelAfter(s, i) ==
  IF i >= Len(s) - 1 THEN 0
  ELSE LevelAfter(s, i + 1)
       + (IF At(s, i + 1) = "]" THEN 1 ELSE IF At(s, i + 1) = "[" THEN -1 ELSE 0)

\* phase 4: the first '-' outside all brackets, or -1
NTerminatorPos(s) ==
  MinOr({i \in 0 .. Len(s) - 1 : At(s, i) = "-" /\ LevelBefore(s, i) = 0}, -1)

\* phase 5: the last '-' outside all brackets, scanning from the right, or -1
CTerminatorPos(s) ==
  MaxOr({i \in 0 .. Len(s) - 1 : At(s, i) = "-" /\ LevelAfter(s, i) = 0}, -1)

\* the positional modification map of the parser: the lists under the residue
\* positions 0..n-1 (site[p + 1]), under the reserved keys -1 (N-terminal),
\* -2 (C-terminal), -3 (labile), -4 (unknown position), and under the key
\* "null" that a null range start produces
EmptyReserved == [k \in -4 .. -1 |-> <<>>]

\* getModsAtPosition(pos).push(mod) for a residue position
PushSite(site, pos, mod) == [site EXCEPT ![pos + 1] = Append(@, mod)]

RECURSIVE PushSiteRange(_, _, _, _)
PushSiteRange(site, from, to, mod) ==
  IF from > to THEN site
  ELSE PushSiteRange(PushSite(site, from, mod), from + 1, to, mod)

\* a range bound in a comparison or an increment: null counts as 0
BoundValue(opt) == IF opt = Null THEN 0 ELSE opt[1]

\* for (let pos = mod.rangeStart; pos <= mod.rangeEnd; pos++)
\*   getModsAtPosition(pos).push(mod)
\* where a null bound compares and increments as 0 but indexes the key "null"
PushRangeMod(w, mod) ==
  IF BoundValue(mod.rangeStart) > BoundValue(mod.rangeEnd) THEN w
  ELSE IF mod.rangeStart = Null
  THEN [w EXCEPT !.nan = Append(@, mod),
                 !.site = PushSiteRange(@, 1, BoundValue(mod.rangeEnd), mod)]
  ELSE [w EXCEPT !.site = PushSiteRange(@, BoundValue(mod.rangeStart),
                                        BoundValue(mod.rangeEnd), mod)]

RECURSIVE RangeModBodies(_, _, _)
RangeModGroup(str, j, bodies, b) ==
  RangeModBodies(str, b.j,
                 IF b.count = 0
                 THEN Append(bodies, Substring(str, j + 1, b.j - 1))
                 ELSE bodies)

\* the [...] groups that follow a ')': the index after them and their bodies
RangeModBodies(str, j, bodies) ==
  IF ~(j < Len(str) /\ At(str, j) = "[")
  THEN [j |-> j, bodies |-> bodies]
  ELSE RangeModGroup(str, j, bodies, BracketEnd(str, j + 1, 1))

\* the modifications of a closed range, pushed in their order
RECURSIVE PushRangeMods(_, _)
PushRangeMods(w, mods) ==
  IF mods = <<>> THEN w
  ELSE PushRangeMods(PushRangeMod(w, mods[1]), Tail(mods))

\* the options _createModification is called with for a site bracket [modStr]
SiteOptions(modStr, nextModIsGap) ==
  IF nextModIsGap THEN [CreateDefaults EXCEPT !.isGap = TRUE]
  ELSE IF CROSSLINK_REF_PATTERN(modStr)
  THEN [CreateDefaults EXCEPT !.isCrosslinkRef = TRUE]
  ELSE IF BRANCH_REF_PATTERN(modStr)
  THEN [CreateDefaults EXCEPT !.isBranchRef = TRUE]
  ELSE IF CROSSLINK_PATTERN(modStr) # Null
  THEN [CreateDefaults EXCEPT !.crosslinkId = CROSSLINK_PATTERN(modStr)]
  ELSE IF BRANCH_PATTERN(modStr)
  THEN [CreateDefaults EXCEPT !.isBranch = TRUE]
  ELSE CreateDefaults

\* the sequence position recorded for a sequence ambiguity: `currentPosition`
\* of ProFormaParser.parse, which is set once and never advanced
CurrentPosition(baseSequence) == 0

\* the modifications built from a list of bodies with the same options
CreateAll(bodies, options) ==
  [k \in 1 .. Len(bodies) |-> CreateModification(bodies[k], options)]

\* the bodies of the modifications the walk reads at index w.i: the groups
\* after a ')', the body of a [...] or the body of a {...}
StepBodies(str, w) ==
  IF At(str, w.i) = ")" THEN RangeModBodies(str, w.i + 1, <<>>).bodies
  ELSE IF At(str, w.i) = "["
  THEN <<Substring(str, w.i + 1, BracketEnd(str, w.i + 1, 1).j - 1)>>
  ELSE IF At(str, w.i) = "{"
  THEN <<Substring(str, w.i + 1, IndexOf(str, <<"}">>, w.i))>>
  ELSE <<>>

\* the options _createModification is called with at index w.i
StepOptions(str, w, bodies) ==
  IF At(str, w.i) = ")"
  THEN IF w.rangeStack = <<>> THEN CreateDefaults
       ELSE [CreateDefaults EXCEPT !.inRange = TRUE,
                                   !.rangeStart = Some(w.rangeStack[Len(w.rangeStack)]),
                                   !.rangeEnd = Some(Len(w.baseSequence) - 1)]
  ELSE IF At(str, w.i) = "[" THEN SiteOptions(bodies[1], w.nextModIsGap)
  ELSE [CreateDefaults EXCEPT !.isAmbiguous = TRUE]

RECURSIVE ResidueWalk(_, _)
\* one iteration of the walk at index i; mods are the modifications it creates
WalkStep(str, w, i, char, n, mods) ==
  IF i + 1 < Len(str) /\ Substring(str, i, i + 2) = <<"(", "?">>
  THEN IF IndexOf(str, <<")">>, i + 2) = -1
       THEN [w EXCEPT !.err = Some("Unclosed sequence ambiguity parenthesis")]
       ELSE ResidueWalk(str,
              [w EXCEPT !.sequenceAmbiguities =
                           Append(@, [value |-> Substring(str, i + 2,
                                                          IndexOf(str, <<")">>, i + 2)),
                                      position |-> CurrentPosition(w.baseSequence)]),
                        !.i = IndexOf(str, <<")">>, i + 2) + 1])
  ELSE IF char = "("
  THEN ResidueWalk(str, [w EXCEPT !.rangeStack = Append(@, n), !.i = i + 1])
  ELSE IF char = ")"
  THEN IF w.rangeStack = <<>>
       THEN [w EXCEPT !.err = Some("Unmatched closing parenthesis")]
       ELSE ResidueWalk(str,
              PushRangeMods([w EXCEPT !.rangeStack = SubSeq(@, 1, Len(@) - 1),
                                      !.i = RangeModBodies(str, i + 1, <<>>).j],
                            mods))
  ELSE IF char = "["
  THEN IF BracketEnd(str, i + 1, 1).count > 0
       THEN [w EXCEPT !.err = Some("Unclosed square bracket")]
       ELSE ResidueWalk(str,
              [w EXCEPT !.site = IF n > 0 THEN PushSite(@, n - 1, mods[1]) ELSE @,
                        !.nextModIsGap = FALSE,
                        !.i = BracketEnd(str, i + 1, 1).j])
  ELSE IF char = "{"
  THEN IF IndexOf(str, <<"}">>, i) = -1
       THEN [w EXCEPT !.err = Some("Unclosed curly brace")]
       ELSE ResidueWalk(str,
              [w EXCEPT !.site = IF n > 0 THEN PushSite(@, n - 1, mods[1]) ELSE @,
                        !.i = IndexOf(str, <<"}">>, i) + 1])
  ELSE ResidueWalk(str,
         [w EXCEPT !.baseSequence = Append(@, char),
                   !.site = Append(@, <<>>),
                   !.nextModIsGap =
                      @ \/ (char = "X" /\ i + 1 < Len(str) /\ At(str, i + 1) = "["),
                   !.i = i + 1])

\* phase 6, the residue walk over str from index w.i
ResidueWalk(str, w) ==
  IF w.i >= Len(str) THEN w
  ELSE WalkStep(str, w, w.i, At(str, w.i), Len(w.baseSequence),
                CreateAll(StepBodies(str, w), StepOptions(str, w, StepBodies(str, w))))

\* the state of the walk before its first iteration
WalkStart ==
  [err |-> Null, i |-> 0, baseSequence |-> <<>>, site |-> <<>>, nan |-> <<>>,
   sequenceAmbiguities |-> <<>>, rangeStack |-> <<>>, nextModIsGap |-> FALSE]

\* the options of the modifications under a reserved key
ReservedOptions(k) ==
  [CreateDefaults EXCEPT !.isUnknownPosition = (k = -4),
                         !.isLabile = (k = -3),
                         !.isTerminal = (k \in {-1, -2})]

\* the return value of parse after the walk w
ParseResult(g, w, bodies) ==
  IF w.err # Null THEN Failure(w.err[1])
  ELSE [err |-> Null,
        baseSequence |-> w.baseSequence,
        modifications |->
          [site |-> w.site,
           nan |-> w.nan,
           reserved |-> [k \in -4 .. -1 |-> CreateAll(bodies[k], ReservedOptions(k))]],
        globalMods |-> g.globalMods,
        sequenceAmbiguities |-> w.sequenceAmbiguities]

\* phase 5, the C-terminal part of s4 and the walk over what precedes it
ParseCTerminal(g, bodies, s4, cPos) ==
  ParseResult(g,
              ResidueWalk(IF cPos # -1 THEN Substring(s4, 0, cPos) ELSE s4, WalkStart),
              [bodies EXCEPT ![-2] = IF cPos # -1
                                     THEN TerminalBodies(SubstringFrom(s4, cPos + 1), 0)
                                     ELSE <<>>])

ParseAfterNTerminal(g, bodies, s4) ==
  ParseCTerminal(g, bodies, s4, IF Includes(s4, <<"-">>) THEN CTerminatorPos(s4) ELSE -1)

\* phase 4, the N-terminal part of s3
ParseNTerminal(g, bodies, s3, nPos) ==
  ParseAfterNTerminal(g,
                      [bodies EXCEPT ![-1] = IF nPos # -1
                                             THEN TerminalBodies(Substring(s3, 0, nPos), 0)
                                             ELSE <<>>],
                      IF nPos # -1 THEN SubstringFrom(s3, nPos + 1) ELSE s3)

ParseAfterLabile(g, bodies, s3) ==
  ParseNTerminal(g, bodies, s3, IF StartsWith(s3, <<"[">>) THEN NTerminatorPos(s3) ELSE -1)

\* phase 3, the labile modifications at the start of s2
ParseLabile(g, bodies, s2, l) ==
  IF l.err # Null THEN Failure(l.err[1])
  ELSE ParseAfterLabile(g, [bodies EXCEPT ![-3] = l.bodies], SubstringFrom(s2, l.i))

\* phase 2, the unknown-position groups at the start of g.str
ParseUnknownPosition(g, u) ==
  IF u.err # Null THEN Failure(u.err[1])
  ELSE ParseLabile(g, [EmptyReserved EXCEPT ![-4] = u.emitted],
                   SubstringFrom(g.str, u.i),
                   LabileLoop(SubstringFrom(g.str, u.i), 0, <<>>))

ParseAfterGlobal(g) ==
  IF g.err # Null THEN Failure(g.err[1])
  ELSE ParseUnknownPosition(g, IF Includes(g.str, <<"?">>)
                               THEN UnknownPositionLoop(g.str, 0, <<>>)
                               ELSE [err |-> Null, i |-> 0, emitted |-> <<>>])

\* ProFormaParser.parse: err is absent when the parse returns, and then the
\* record holds [baseSequence, modifications, globalMods, sequenceAmbiguities]
Parse(proformaStr) == ParseAfterGlobal(ParseGlobalMods(proformaStr, <<>>))

\* ------------------------------------------------------------------------
\* Sequence assembly
\* ------------------------------------------------------------------------

\* the keys of AA_mass (resources.ts)
AA_mass ==
  {"A", "R", "N", "D", "C", "E", "Q", "G", "H", "I", "L", "K", "M", "F",
   "P", "S", "T", "U", "W", "Y", "V", "X", "O"}

MOD_ENCLOSURE_START == {"(", "[", "{"}

MOD_ENCLOSURE_END == {")", "]", "}"}

\* Sequence._sequenceIterator over the characters of a string: the blocks
\* yielded, each with its isMod flag
RECURSIVE SequenceIterator(_, _, _, _)
SequenceIterator(chars, modOpen, block, isMod) ==
  IF chars = <<>> THEN <<>>
  ELSE LET item == chars[1]
           isMod1 == isMod \/ item \in MOD_ENCLOSURE_START
           modOpen1 == IF item \in MOD_ENCLOSURE_START THEN modOpen + 1
                       ELSE IF item \in MOD_ENCLOSURE_END THEN modOpen - 1
                       ELSE modOpen
           block1 == block \o <<item>>
       IN  IF modOpen1 = 0
           THEN <<[block |-> block1, isMod |-> isMod1]>>
                \o SequenceIterator(Tail(chars), modOpen1, <<>>, FALSE)
           ELSE SequenceIterator(Tail(chars), modOpen1, block1, isMod1)

\* AminoAcid.addModification on the residue at index pos (0-based) of seq
AddModification(seq, pos, mod) == [seq EXCEPT ![pos + 1].mods = Append(@, mod)]

\* Sequence._parseSequence with modPosition = 'right' and no predefined mods:
\* the residue list, or err when the AminoAcid constructor throws
RECURSIVE ParseSequence(_, _)
ParseSequence(blocks, seq) ==
  IF blocks = <<>> THEN [err |-> Null, seq |-> seq]
  ELSE IF ~blocks[1].isMod
  THEN IF Len(blocks[1].block) = 1 /\ blocks[1].block[1] \in AA_mass
       THEN ParseSequence(Tail(blocks),
              Append(seq, [value |-> blocks[1].block[1], position |-> Len(seq),
                           mods |-> <<>>]))
       ELSE Failure("Unknown amino acid and no mass provided")
  ELSE IF Len(seq) > 0
  THEN ParseSequence(Tail(blocks),
         AddModification(seq, Len(seq) - 1, Modification(blocks[1].block, ModDefaults)))
  ELSE ParseSequence(Tail(blocks), seq)

\* seq.seq[pos].addModification(mod) for every mod of mods
RECURSIVE AddModificationsAt(_, _, _)
AddModificationsAt(seq, pos, mods) ==
  IF mods = <<>> THEN seq
  ELSE AddModificationsAt(AddModification(seq, pos, mods[1]), pos, Tail(mods))

\* the loop of fromProforma over the residue keys of `modifications`
RECURSIVE AttachSiteMods(_, _, _)
AttachSiteMods(seq, site, pos) ==
  IF pos >= Len(site) \/ pos >= Len(seq) THEN seq
  ELSE AttachSiteMods(AddModificationsAt(seq, pos, site[pos + 1]), site, pos + 1)

\* the Sequence assembled from the parser's output p and the residues r
ChainFromResidues(p, r) ==
  IF r.err # Null THEN Failure(r.err[1])
  ELSE IF \/ p.modifications.nan # <<>>
          \/ \E pos \in 0 .. Len(p.modifications.site) - 1 :
                p.modifications.site[pos + 1] # <<>> /\ pos >= Len(r.seq)
  THEN Failure("TypeError: seq.seq[pos] is undefined")
  ELSE [err |-> Null,
        seq |-> AttachSiteMods(r.seq, p.modifications.site, 0),
        mods |-> p.modifications.reserved,
        globalMods |-> p.globalMods,
        sequenceAmbiguities |-> p.sequenceAmbiguities]

ChainFromParse(p) ==
  IF p.err # Null THEN Failure(p.err[1])
  ELSE ChainFromResidues(p,
         ParseSequence(SequenceIterator(p.baseSequence, 0, <<>>, FALSE), <<>>))

\* Sequence.fromProforma of a string without "//": the Sequence built from the
\* parser's output, or err when the parser or the assembly throws
FromProformaChain(proformaStr) == ChainFromParse(Parse(proformaStr))

\* the chains built from the pieces of proformaStr.split("//")
FromProformaChains(pieces) == [k \in 1 .. Len(pieces) |-> FromProformaChain(pieces[k])]

\* mainSeq with isMultiChain and chains, or the error of the first chain that
\* throws; chains[1] is mainSeq itself
SequenceOfChains(isMultiChain, chains) ==
  IF \E k \in 1 .. Len(chains) : chains[k].err # Null
  THEN Failure((chains[Min({k \in 1 .. Len(chains) : chains[k].err # Null})]).err[1])
  ELSE [err |-> Null, main |-> chains[1], isMultiChain |-> isMultiChain,
        chains |-> IF isMultiChain THEN chains ELSE <<>>]

\* Sequence.fromProforma: a string with "//" is split into chains, any other
\* string is the only chain
FromProforma(proformaStr) ==
  SequenceOfChains(Includes(proformaStr, <<"/", "/">>),
                   FromProformaChains(IF Includes(proformaStr, <<"/", "/">>)
                                      THEN Split(proformaStr, <<"/", "/">>)
                                      ELSE <<proformaStr>>))

\* Sequence.toStrippedString
ToStrippedString(chain) == [k \in 1 .. Len(chain.seq) |-> chain.seq[k].value]

\* ------------------------------------------------------------------------
\* Serializer
\* ------------------------------------------------------------------------

\* every modification of a residue in square brackets, the ambiguous ones too
WrapModInBrackets(mod) == <<"[">> \o ModToProforma(mod) \o <<"]">>

\* a sequence-level ambiguous modification, written in braces
IsBraced(mod) == mod.modType = "ambiguous" /\ ~HasAmbiguity(mod) /\ ~mod.inRange

\* the enclosure put around one modification of a residue
WrapMod(mod) ==
  (IF IsBraced(mod) THEN <<"{">> ELSE <<"[">>)
  \o ModToProforma(mod)
  \o (IF IsBraced(mod) THEN <<"}">> ELSE <<"]">>)

\* Sequence.getModAndAddToString: every modification of the residue
RECURSIVE GetModAndAddToString(_)
GetModAndAddToString(mods) ==
  IF mods = <<>> THEN <<>>
  ELSE WrapMod(mods[1]) \o GetModAndAddToString(Tail(mods))

\* the modifications of a residue inside the residue loop: range modifications
\* are skipped while a range is open
RECURSIVE ResidueModString(_, _)
ResidueModString(mods, rangeStart) ==
  IF mods = <<>> THEN <<>>
  ELSE (IF rangeStart /\ mods[1].inRange THEN <<>> ELSE WrapMod(mods[1]))
       \o ResidueModString(Tail(mods), rangeStart)

\* [body][body]... of the modifications under a terminal key
RECURSIVE BracketedMods(_)
BracketedMods(mods) ==
  IF mods = <<>> THEN <<>>
  ELSE <<"[">> \o ModToProforma(mods[1]) \o <<"]">> \o BracketedMods(Tail(mods))

\* the bodies of the key -4 modifications in order of first appearance
RECURSIVE FirstAppearances(_, _)
FirstAppearances(bodies, seen) ==
  IF bodies = <<>> THEN <<>>
  ELSE IF bodies[1] \in seen THEN FirstAppearances(Tail(bodies), seen)
  ELSE <<bodies[1]>> \o FirstAppearances(Tail(bodies), seen \cup {bodies[1]})

\* an unknown-position group written without its count
UnknownGroupWithoutCount(modValue, count) ==
  <<"[">> \o modValue \o <<"]">> \o <<"?">>

\* one group of unknown-position modifications: [body]^count? or [body]?
UnknownGroup(modValue, count) ==
  IF count > 1
  THEN <<"[">> \o modValue \o <<"]">> \o <<"^">> \o NatToDigits(count) \o <<"?">>
  ELSE <<"[">> \o modValue \o <<"]">> \o <<"?">>

\* the number of times body b occurs in bodies
Occurrences(bodies, b) == Cardinality({k \in 1 .. Len(bodies) : bodies[k] = b})

\* the groups written for bodies, one for each of keys
UnknownGroupsText(bodies, keys) ==
  Join([k \in 1 .. Len(keys) |-> UnknownGroup(keys[k], Occurrences(bodies, keys[k]))],
       <<>>)

UnknownBodiesText(bodies) == UnknownGroupsText(bodies, FirstAppearances(bodies, {}))

\* the unknown-position prefix of _chainToProforma
UnknownModsString(mods) ==
  UnknownBodiesText([k \in 1 .. Len(mods) |-> ModToProforma(mods[k])])

\* the labile prefix of _chainToProforma
RECURSIVE LabileModsString(_)
LabileModsString(mods) ==
  IF mods = <<>> THEN <<>>
  ELSE (IF mods[1].modType = "labile"
        THEN <<"{">> \o ModToProforma(mods[1]) \o <<"}">>
        ELSE <<>>)
       \o LabileModsString(Tail(mods))

RECURSIVE GlobalModsString(_)
GlobalModsString(globalMods) ==
  IF globalMods = <<>> THEN <<>>
  ELSE GlobalModToProforma(globalMods[1]) \o GlobalModsString(Tail(globalMods))

RECURSIVE SortByPosition(_)
SortFrom(ambs, first) ==
  <<ambs[first]>>
  \o SortByPosition(SubSeq(ambs, 1, first - 1) \o SubSeq(ambs, first + 1, Len(ambs)))

\* the index of the first ambiguity with the lowest position
FirstLowest(ambs, lowest) == Min({k \in 1 .. Len(ambs) : ambs[k].position = lowest})

\* [...sequenceAmbiguities].sort((a, b) => a.position - b.position): stable
SortByPosition(ambs) ==
  IF ambs = <<>> THEN <<>>
  ELSE SortFrom(ambs, FirstLowest(ambs, Min({ambs[k].position : k \in 1 .. Len(ambs)})))

\* every modification carried by a residue of seq
ResidueMods(seq) ==
  UNION {{seq[i].mods[k] : k \in 1 .. Len(seq[i].mods)} : i \in 1 .. Len(seq)}

\* the [start, end] pairs of `ranges` collected from the residues of seq
RangeBounds(seq) ==
  {<<m.rangeStart[1], m.rangeEnd[1]>> :
     m \in {x \in ResidueMods(seq) :
              x.inRange /\ x.rangeStart # Null /\ x.rangeEnd # Null}}

RECURSIVE ResidueLoop(_, _, _, _, _, _)
\* the text of residue i: its ambiguity, the '(' that opens a range, the
\* residue, its modifications, and the ')' with the range modifications
ResidueText(seq, ranges, sortedAmbiguities, i, ambiguityIndex, hasAmbiguity, opens, rangeStart1, closes) ==
  (IF hasAmbiguity
   THEN <<"(", "?">> \o sortedAmbiguities[ambiguityIndex + 1].value \o <<")">>
   ELSE <<>>)
  \o (IF opens THEN <<"(">> ELSE <<>>)
  \o <<seq[i + 1].value>>
  \o ResidueModString(seq[i + 1].mods, rangeStart1)
  \o (IF closes THEN <<")">> \o GetModAndAddToString(seq[i + 1].mods) ELSE <<>>)
  \o ResidueLoop(seq, ranges, sortedAmbiguities, i + 1,
                 IF hasAmbiguity THEN ambiguityIndex + 1 ELSE ambiguityIndex,
                 rangeStart1 /\ ~closes)

ResidueRange(seq, ranges, sortedAmbiguities, i, ambiguityIndex, hasAmbiguity, opens, rangeStart1) ==
  ResidueText(seq, ranges, sortedAmbiguities, i, ambiguityIndex,
              hasAmbiguity, opens, rangeStart1,
              rangeStart1 /\ \E r \in ranges : r[2] = i)

ResidueOpen(seq, ranges, sortedAmbiguities, i, ambiguityIndex, rangeStart, opens) ==
  ResidueRange(seq, ranges, sortedAmbiguities, i, ambiguityIndex,
               /\ ambiguityIndex < Len(sortedAmbiguities)
               /\ sortedAmbiguities[ambiguityIndex + 1].position = i,
               opens, rangeStart \/ opens)

\* the residue loop of _chainToProforma from index i on
ResidueLoop(seq, ranges, sortedAmbiguities, i, ambiguityIndex, rangeStart) ==
  IF i >= Len(seq) THEN <<>>
  ELSE ResidueOpen(seq, ranges, sortedAmbiguities, i, ambiguityIndex, rangeStart,
                   ~rangeStart /\ \E r \in ranges : r[1] = i)

\* Sequence._chainToProforma(chain) called on `this`
ChainToProforma(this, chain) ==
  GlobalModsString(this.globalMods)
  \o UnknownModsString(chain.mods[-4])
  \o LabileModsString(chain.mods[-3])
  \o (IF chain.mods[-1] # <<>> THEN BracketedMods(chain.mods[-1]) \o <<"-">> ELSE <<>>)
  \o ResidueLoop(chain.seq, RangeBounds(this.seq),
                 SortByPosition(this.sequenceAmbiguities), 0, 0, FALSE)
  \o (IF chain.mods[-2] # <<>> THEN <<"-">> \o BracketedMods(chain.mods[-2]) ELSE <<>>)

\* the chains toProforma writes: this.chains, or `this` alone
ChainsOf(s) == IF s.isMultiChain THEN s.chains ELSE <<s.main>>

\* Sequence.toProforma
ToProforma(s) ==
  Join([k \in 1 .. Len(ChainsOf(s)) |-> ChainToProforma(s.main, ChainsOf(s)[k])],
       <<"/", "/">>)

\* ------------------------------------------------------------------------
\* Adding modifications to a parsed sequence
\* ------------------------------------------------------------------------

\* the loop body of Sequence.addModifications for the residue at index i
\* (1-based) of seq: `aa.position && ...` and `aa.position in modDict`
ResidueAddedMods(seq, modDict, i) ==
  IF seq[i].position # 0 /\ seq[i].position \in DOMAIN modDict
  THEN seq[i].mods \o modDict[seq[i].position]
  ELSE seq[i].mods

\* Sequence.addModifications(modDict): the residues afterwards
addModifications(seq, modDict) ==
  [i \in 1 .. Len(seq) |-> [seq[i] EXCEPT !.mods = ResidueAddedMods(seq, modDict, i)]]

\* ------------------------------------------------------------------------
\* ModdedSequenceGenerator
\* ------------------------------------------------------------------------

\* a Modification handed to the generator: the modification, its regex as
\* the set of residue codes it matches (null when it has none), and the
\* constructor arguments labilNumber and allFilled
GeneratorMod(mod, regex, labileNumber, allFilled) ==
  [mod |-> mod, regex |-> regex, labileNumber |-> labileNumber, allFilled |-> allFilled]

\* Object.prototype.toString(), what String(o) is for an object whose class
\* defines no toString
STR_OBJECT ==
  <<"[", "o", "b", "j", "e", "c", "t", " ", "O", "b", "j", "e", "c", "t", "]">>

\* Modification.value (getter): this._modValue?.primaryValue || super.value
ModValue(mod) ==
  IF mod.modValue.primaryValue # <<>> THEN mod.modValue.primaryValue ELSE mod.value

\* Modification.toString; `this._modValue.toString()` is the toString
\* ModificationValue inherits from Object
ModToString(gm) ==
  IF gm.mod.isCrosslinkRef /\ TruthyStr(gm.mod.crosslinkId)
  THEN <<"#">> \o gm.mod.crosslinkId[1]
  ELSE IF gm.mod.isBranchRef THEN STR_HASH_BRANCH
  ELSE STR_OBJECT
       \o (IF TruthyStr(gm.mod.crosslinkId) /\ ~gm.mod.isCrosslinkRef
           THEN <<"#">> \o gm.mod.crosslinkId[1] ELSE <<>>)
       \o (IF gm.mod.isBranch /\ ~gm.mod.isBranchRef THEN STR_HASH_BRANCH ELSE <<>>)
       \o (IF gm.mod.labile THEN NatToDigits(gm.labileNumber) ELSE <<>>)

\* the start indices Modification.findPositions yields on seq, ascending
FindPositions(gm, seq) ==
  SelectSeq([i \in 1 .. Len(seq) |-> i - 1], LAMBDA p : seq[p + 1] \in gm.regex[1])

\* an object without keys
EmptyDict == [k \in {} |-> <<>>]

\* ModificationMap._buildMappings with parse_position = true: modPositionDict
RECURSIVE BuildMappings(_, _, _, _)
BuildMappings(seq, mods, ignorePositions, modPositionDict) ==
  IF mods = <<>> THEN modPositionDict
  ELSE BuildMappings(seq, Tail(mods), ignorePositions,
         IF mods[1].regex # Null
         THEN (ModToString(mods[1]) :>
                 SelectSeq(FindPositions(mods[1], seq), LAMBDA p : p \notin ignorePositions))
              @@ modPositionDict
         ELSE modPositionDict)

\* ModificationMap.getModPositions
GetModPositions(modPositionDict, mod_name) ==
  IF mod_name \in DOMAIN modPositionDict THEN Some(modPositionDict[mod_name]) ELSE Null

\* positionDict with gm pushed at every position of the list
RECURSIVE PushAtPositions(_, _, _)
PushAtPositions(positionDict, positions, gm) ==
  IF positions = <<>> THEN positionDict
  ELSE PushAtPositions(
         (positions[1] :> (IF positions[1] \in DOMAIN positionDict
                           THEN Append(positionDict[positions[1]], gm)
                           ELSE <<gm>>)) @@ positionDict,
         Tail(positions), gm)

\* ModdedSequenceGenerator._generateStaticModPositions
RECURSIVE GenerateStaticModPositions(_, _, _)
StaticModPositionsStep(staticMods, modPositionDict, positionDict, positions) ==
  GenerateStaticModPositions(Tail(staticMods), modPositionDict,
    IF positions # Null
    THEN PushAtPositions(positionDict, positions[1], staticMods[1])
    ELSE positionDict)

GenerateStaticModPositions(staticMods, modPositionDict, positionDict) ==
  IF staticMods = <<>> THEN positionDict
  ELSE StaticModPositionsStep(staticMods, modPositionDict, positionDict,
                              GetModPositions(modPositionDict, ModValue(staticMods[1].mod)))

\* the positions picked by the binary mask i from the sorted positions
MaskPositions(sortedPositions, i) ==
  LET picked == SelectSeq([j \in 1 .. Len(sortedPositions) |-> j],
                          LAMBDA j : (i \div (2 ^ (j - 1))) % 2 = 1)
  IN  [k \in 1 .. Len(picked) |-> sortedPositions[picked[k]]]

\* variablePositionPlacementGenerator on a list that is already ascending
variablePositionPlacementGenerator(positions) ==
  IF positions = <<>> THEN <<<<>>>>
  ELSE [i \in 1 .. 2 ^ Len(positions) |-> MaskPositions(positions, i - 1)]

\* ModdedSequenceGenerator._generateVariableModScenarios
RECURSIVE GenerateVariableModScenarios(_, _, _)
VariableModScenariosStep(variableMods, modPositionDict, scenarios, positions) ==
  GenerateVariableModScenarios(Tail(variableMods), modPositionDict,
    (ModValue(variableMods[1].mod) :>
       (IF ~variableMods[1].allFilled THEN variablePositionPlacementGenerator(positions)
        ELSE <<<<>>, positions>>)) @@ scenarios)

GenerateVariableModScenarios(variableMods, modPositionDict, scenarios) ==
  IF variableMods = <<>> THEN scenarios
  ELSE VariableModScenariosStep(variableMods, modPositionDict, scenarios,
         IF GetModPositions(modPositionDict, ModValue(variableMods[1].mod)) # Null
         THEN GetModPositions(modPositionDict, ModValue(variableMods[1].mod))[1]
         ELSE <<>>)

\* JSON.parse(JSON.stringify(mod)): strings, numbers and booleans are kept,
\* the RegExp comes back as the empty object
JsonModification(gm) == [gm EXCEPT !.regex = "{}"]

\* ModdedSequenceGenerator._deepCopyModification
DeepCopyModification(gm) == JsonModification(gm)

\* ModdedSequenceGenerator._exploreScenarios: the scenarios it yields, in
\* order; currentScenario holds deep copies only, which _deepCopyScenario
\* leaves as they are
RECURSIVE ExploreScenarios(_, _, _, _)
RECURSIVE ExploreCombinations(_, _, _, _, _)
ExploreCombinations(variableMods, currentModIdx, currentScenario, scenarios, combinations) ==
  IF combinations = <<>> THEN <<>>
  ELSE ExploreScenarios(variableMods, currentModIdx + 1,
                        PushAtPositions(currentScenario, combinations[1],
                                        DeepCopyModification(variableMods[currentModIdx])),
                        scenarios)
       \o ExploreCombinations(variableMods, currentModIdx, currentScenario, scenarios,
                              Tail(combinations))

ExploreScenarios(variableMods, currentModIdx, currentScenario, scenarios) ==
  IF currentModIdx > Len(variableMods) THEN <<currentScenario>>
  ELSE ExploreCombinations(variableMods, currentModIdx, currentScenario, scenarios,
         IF ModValue(variableMods[currentModIdx].mod) \in DOMAIN scenarios
         THEN scenarios[ModValue(variableMods[currentModIdx].mod)]
         ELSE <<<<>>>>)

\* the static scenario with the modifications of a variable scenario added
CombinedScenario(staticModPositionDict, variableScenario) ==
  [pos \in DOMAIN staticModPositionDict \cup DOMAIN variableScenario |->
     (IF pos \in DOMAIN staticModPositionDict THEN staticModPositionDict[pos] ELSE <<>>)
     \o (IF pos \in DOMAIN variableScenario THEN variableScenario[pos] ELSE <<>>)]

\* orderedSerializePositionDict: the keys ascending, each modification as
\* JSON.stringify writes it
orderedSerializePositionDict(positions) ==
  [pos \in DOMAIN positions |->
     [k \in 1 .. Len(positions[pos]) |-> JsonModification(positions[pos][k])]]

\* the scenarios generate() yields out of a list: the ones whose
\* serialization was not used before
RECURSIVE YieldUnused(_, _)
YieldUnusedStep(scenarioList, usedScenariosSet, serialized) ==
  IF serialized \in usedScenariosSet
  THEN YieldUnused(Tail(scenarioList), usedScenariosSet)
  ELSE <<scenarioList[1]>>
       \o YieldUnused(Tail(scenarioList), usedScenariosSet \cup {serialized})

YieldUnused(scenarioList, usedScenariosSet) ==
  IF scenarioList = <<>> THEN <<>>
  ELSE YieldUnusedStep(scenarioList, usedScenariosSet,
                       orderedSerializePositionDict(scenarioList[1]))

\* generate() on the state the constructor left
GenerateWith(variableMods, staticModPositionDict, explored) ==
  IF variableMods = <<>> THEN YieldUnused(<<staticModPositionDict>>, {})
  ELSE YieldUnused([k \in 1 .. Len(explored) |->
                      CombinedScenario(staticModPositionDict, explored[k])], {})

\* the constructor's variableMap, built on the modPositionDict object the
\* staticMap already wrote to, with the static positions ignored
GenerateVariable(seq, variableMods, modPositionDict, staticModPositionDict) ==
  GenerateWith(variableMods, staticModPositionDict,
    ExploreScenarios(variableMods, 1, EmptyDict,
      GenerateVariableModScenarios(variableMods,
        BuildMappings(seq, variableMods, DOMAIN staticModPositionDict, modPositionDict),
        EmptyDict)))

\* the constructor's staticModPositionDict
GenerateStatic(seq, variableMods, staticMods, modPositionDict) ==
  GenerateVariable(seq, variableMods, modPositionDict,
                   GenerateStaticModPositions(staticMods, modPositionDict, EmptyDict))

\* [...new ModdedSequenceGenerator(seq, variableMods, staticMods).generate()]
Generate(seq, variableMods, staticMods) ==
  GenerateStatic(seq, variableMods, staticMods,
                 BuildMappings(seq, staticMods, {}, EmptyDict))

\* ------------------------------------------------------------------------
\* Glycan validation
\* ------------------------------------------------------------------------

\* monosaccharides (resources.ts)
monosaccharides ==
  <<<<"H", "e", "x">>, <<"H", "e", "x", "N", "A", "c">>, <<"H", "e", "x", "S">>,
    <<"H", "e", "x", "P">>, <<"H", "e", "x", "N", "A", "c", "S">>,
    <<"d", "H", "e", "x">>, <<"N", "e", "u", "A", "c">>, <<"N", "e", "u", "G", "c">>,
    <<"P", "e", "n">>, <<"F", "u", "c">>>>

\* [...names].sort((a, b) => b.length - a.length): the names of length n, then
\* the shorter ones, each length in its original order
RECURSIVE SortedByLength(_, _)
SortedByLength(names, n) ==
  IF n = 0 THEN <<>>
  ELSE SelectSeq(names, LAMBDA m : Len(m) = n) \o SortedByLength(names, n - 1)

sortedMonos ==
  SortedByLength(monosaccharides,
                 Max({Len(monosaccharides[k]) : k \in 1 .. Len(monosaccharides)}))

\* the alternation (name1|name2|...) tried at index p of s: the length of the
\* first name of the list that stands there, 0 when none does
RECURSIVE MonoNameAt(_, _, _)
MonoNameAt(s, p, names) ==
  IF names = <<>> THEN 0
  ELSE IF StartsWith(SubstringFrom(s, p), names[1]) THEN Len(names[1])
  ELSE MonoNameAt(s, p, Tail(names))

\* the optional group (\((\d+)\))? tried at index q of s: its length, 0 when skipped
MonoCountAt(s, q, digits) ==
  IF q < Len(s) /\ At(s, q) = "(" /\ digits > 0
     /\ q + 1 + digits < Len(s) /\ At(s, q + 1 + digits) = ")"
  THEN digits + 2
  ELSE 0

\* the length of the match of monoPattern that starts at index p of s, 0 when none
MonoMatchAt(s, p, name) ==
  IF name = 0 THEN 0 ELSE name + MonoCountAt(s, p + name, DigitRun(s, p + name + 1))

\* s.match(monoPattern): the pattern is not anchored, so the match is the one
\* at the leftmost index where a name stands; Null when there is none
MonoMatchFrom(s, starts) ==
  IF starts = {} THEN Null
  ELSE Some(MonoMatchAt(s, Min(starts), MonoNameAt(s, Min(starts), sortedMonos)))

MonoMatch(s) ==
  MonoMatchFrom(s, {p \in 0 .. Len(s) - 1 : MonoNameAt(s, p, sortedMonos) > 0})

\* the while loop of _validateGlycan from index i
RECURSIVE ValidateGlycanLoop(_, _)
ValidateGlycanStep(glycanClean, i, match) ==
  IF match = Null THEN FALSE ELSE ValidateGlycanLoop(glycanClean, i + match[1])

ValidateGlycanLoop(glycanClean, i) ==
  IF i < Len(glycanClean)
  THEN ValidateGlycanStep(glycanClean, i, MonoMatch(SubstringFrom(glycanClean, i)))
  ELSE i = Len(glycanClean)

\* ModificationValue._validateGlycan
validateGlycan(glycan) ==
  ValidateGlycanLoop(SelectSeq(glycan, LAMBDA c : c \notin WhiteSpace), 0)

\* ------------------------------------------------------------------------
\* Mass calculation: decimal numbers with up to eight fraction digits, added
\* exactly
\* ------------------------------------------------------------------------

MassScale == 10 ^ 8

\* ds with zeros in front, n digits in all
PadLeft(ds, n) == [k \in 1 .. n - Len(ds) |-> "0"] \o ds

\* ds with zeros behind, n digits in all
PadRight(ds, n) == ds \o [k \in 1 .. n - Len(ds) |-> "0"]

\* the literal int.frac, frac written with nDigits digits
Dec(int, frac, nDigits) == MkNum(FALSE, int, PadLeft(NatToDigits(frac), nDigits))

H == Dec(1, 7825, 6)

O == Dec(15, 99491463, 8)

Zero == MkNum(FALSE, 0, <<>>)

\* AA_mass[value] (resources.ts)
AA_massValue(value) ==
  CASE value = "A" -> Dec(71, 37114, 6)
    [] value = "R" -> Dec(156, 101111, 6)
    [] value = "N" -> Dec(114, 42927, 6)
    [] value = "D" -> Dec(115, 26943, 6)
    [] value = "C" -> Dec(103, 9185, 6)
    [] value = "E" -> Dec(129, 42593, 6)
    [] value = "Q" -> Dec(128, 58578, 6)
    [] value = "G" -> Dec(57, 21464, 6)
    [] value = "H" -> Dec(137, 58912, 6)
    [] value = "I" -> Dec(113, 84064, 6)
    [] value = "L" -> Dec(113, 84064, 6)
    [] value = "K" -> Dec(128, 94963, 6)
    [] value = "M" -> Dec(131, 40485, 6)
    [] value = "F" -> Dec(147, 68414, 6)
    [] value = "P" -> Dec(97, 52764, 6)
    [] value = "S" -> Dec(87, 32028, 6)
    [] value = "T" -> Dec(101, 47679, 6)
    [] value = "U" -> Dec(255, 15829, 5)
    [] value = "W" -> Dec(186, 79313, 6)
    [] value = "Y" -> Dec(163, 6332, 5)
    [] value = "V" -> Dec(99, 68414, 6)
    [] value = "X" -> Zero
    [] value = "O" -> Dec(150, 3794, 5)

\* the fraction of n in units of 1 / MassScale
FracUnits(n) == DigitsToNat(PadRight(n.frac, 8))

\* n as whole + part / MassScale with 0 <= part < MassScale
WholeOf(n) ==
  IF ~n.neg THEN n.int ELSE IF n.frac = <<>> THEN -n.int ELSE -n.int - 1

PartOf(n) == IF n.neg /\ n.frac # <<>> THEN MassScale - FracUnits(n) ELSE FracUnits(n)

\* the number whole + part / MassScale
FromParts(whole, part) ==
  IF whole >= 0 THEN MkNum(FALSE, whole, PadLeft(NatToDigits(part), 8))
  ELSE IF part = 0 THEN MkNum(TRUE, -whole, <<>>)
  ELSE MkNum(TRUE, -whole - 1, PadLeft(NatToDigits(MassScale - part), 8))

\* a + b
AddNum(a, b) ==
  IF a.nan \/ b.nan THEN NaN
  ELSE FromParts(WholeOf(a) + WholeOf(b) + (PartOf(a) + PartOf(b)) \div MassScale,
                 (PartOf(a) + PartOf(b)) % MassScale)

\* Modification.mass (getter): this._modValue?.mass || super.mass || 0.0
ModMass(mod) ==
  IF mod.modValue.mass # Null /\ Truthy(mod.modValue.mass[1]) THEN mod.modValue.mass[1]
  ELSE IF Truthy(mod.mass) THEN mod.mass
  ELSE Zero

\* the mass added for a block that has no mass of its own: massDict[value],
\* or an error
DictMass(value, massDict, mass) ==
  IF massDict = Null
  THEN Failure("mass is not available in mass attribute and no additional massDict was supplied")
  ELSE IF value \in DOMAIN massDict[1]
  THEN [err |-> Null, mass |-> AddNum(mass, massDict[1][value])]
  ELSE Failure("not found in massDict")

\* calculateMass, the loop over i.mods
RECURSIVE ModsMass(_, _, _)
ModMassStep(mods, massDict, r) ==
  IF r.err # Null THEN r ELSE ModsMass(Tail(mods), massDict, r.mass)

ModMassAdd(mods, massDict, mass, m) ==
  ModMassStep(mods, massDict,
              IF m.nan THEN DictMass(mods[1].value, massDict, mass)
              ELSE [err |-> Null, mass |-> AddNum(mass, m)])

ModsMass(mods, massDict, mass) ==
  IF mods = <<>> THEN [err |-> Null, mass |-> mass]
  ELSE ModMassAdd(mods, massDict, mass, ModMass(mods[1]))

\* calculateMass, the loop over seq
RECURSIVE BlocksMass(_, _, _)
BlockMods(seq, massDict, r) ==
  IF r.err # Null THEN r ELSE BlocksMass(Tail(seq), massDict, r.mass)

BlockMassStep(seq, massDict, r) ==
  IF r.err # Null THEN r ELSE BlockMods(seq, massDict, ModsMass(seq[1].mods, massDict, r.mass))

BlockMassAdd(seq, massDict, mass, m) ==
  BlockMassStep(seq, massDict,
                IF ~Truthy(m) THEN DictMass(<<seq[1].value>>, massDict, mass)
                ELSE [err |-> Null, mass |-> AddNum(mass, m)])

BlocksMass(seq, massDict, mass) ==
  IF seq = <<>> THEN [err |-> Null, mass |-> mass]
  ELSE BlockMassAdd(seq, massDict, mass, AA_massValue(seq[1].value))

CalculateMassEnd(r, NTerminus, OTerminus) ==
  IF r.err # Null THEN r
  ELSE [err |-> Null, mass |-> AddNum(AddNum(r.mass, NTerminus), OTerminus)]

\* calculateMass(seq, massDict, NTerminus, OTerminus, withWater): the mass, or
\* err when it throws
calculateMass(seq, massDict, NTerminus, OTerminus, withWater) ==
  CalculateMassEnd(BlocksMass(seq, massDict,
                              IF withWater THEN AddNum(AddNum(H, H), O) ELSE Zero),
                   NTerminus, OTerminus)

\* ------------------------------------------------------------------------
\* Slices and fragment ions
\* ------------------------------------------------------------------------

\* Array.prototype.slice(start, end) for 0 <= start, 0 <= end
Slice(seq, start, end) == SubSeq(seq, start + 1, IF end < Len(seq) THEN end ELSE Len(seq))

\* Sequence.getItem([start, end]): a new Sequence that holds the residues of
\* the slice
GetItemSlice(this, start, end) ==
  [isSequence |-> TRUE,
   sequence |-> [err |-> Null, seq |-> Slice(this.seq, start, end), mods |-> EmptyReserved,
                 globalMods |-> <<>>, sequenceAmbiguities |-> <<>>]]

\* Sequence.getItem(key) for a number: the residue this.seq[key]
GetItemAt(this, key) == [isSequence |-> FALSE, block |-> this.seq[key + 1]]

\* the modification list the Ion constructor leaves under index i: the list is
\* set anew for every modification, so it holds the last one
IonMods(seq) ==
  [i \in 0 .. Len(seq) - 1 |->
     IF seq[i + 1].mods = <<>> THEN <<>>
     ELSE <<seq[i + 1].mods[Len(seq[i + 1].mods)]>>]

\* new Ion(seq, charge, ion_type, fragment_number): a Sequence is copied; any
\* other value goes to _parseSequence, which iterates over it and throws when
\* it is a single residue
Ion(seq, charge, ion_type, fragment_number) ==
  IF ~seq.isSequence THEN Failure("TypeError: seq is not iterable")
  ELSE [err |-> Null, seq |-> seq.sequence.seq, charge |-> charge,
        ion_type |-> ion_type, fragment_number |-> fragment_number,
        mods |-> IonMods(seq.sequence.seq),
        has_labile |-> \E i \in 1 .. Len(seq.sequence.seq) :
                         \E k \in 1 .. Len(seq.sequence.seq[i].mods) :
                           seq.sequence.seq[i].mods[k].labile]

\* fragmentNonLabile, collected: the pairs yielded, and err when the generator
\* throws
RECURSIVE FragmentLoop(_, _, _, _)
FragmentStep(sequence, fragmentType, i, pairs, left, right) ==
  IF left.err # Null THEN [err |-> left.err, pairs |-> pairs]
  ELSE IF right.err # Null THEN [err |-> right.err, pairs |-> pairs]
  ELSE FragmentLoop(sequence, fragmentType, i + 1, Append(pairs, <<left, right>>))

FragmentLoop(sequence, fragmentType, i, pairs) ==
  IF i >= Len(sequence.seq) THEN [err |-> Null, pairs |-> pairs]
  ELSE FragmentStep(sequence, fragmentType, i, pairs,
                    Ion(GetItemSlice(sequence, 0, i), 1, fragmentType[1], i),
                    Ion(GetItemAt(sequence, i), 1, fragmentType[2], Len(sequence.seq) - i))

fragmentNonLabile(sequence, fragmentType) == FragmentLoop(sequence, fragmentType, 1, <<>>)

\* ------------------------------------------------------------------------
\* Inputs: ProForma strings assembled from tokens, each token a string
\* ------------------------------------------------------------------------

MaxResidues == 3

MaxSiteMods == 2

MaxTerminalMods == 2

\* the characters of a list of tokens, in order
Concat(toks) == Join(toks, <<>>)

Bracketed(body) == <<"[">> \o body \o <<"]">>

Braced(body) == <<"{">> \o body \o <<"}">>

\* plain names used as modification bodies
NameA == <<"a">>

NameB == <<"O", "x">>

\* the k-th name of a run of modifications: NameA, NameB, NameA, ...
NameAt(k) == IF k % 2 = 1 THEN NameA ELSE NameB

\* k bracketed names [a][Ox][a]...
BracketRun(k) == [j \in 1 .. k |-> Bracketed(NameAt(j))]

\* the residue code written at 0-based index i
ResidueAt(i) == IF i % 3 = 0 THEN "P" ELSE IF i % 3 = 1 THEN "E" ELSE "K"

\* residue i followed by 0..MaxSiteMods bracketed names or by one braced name
SiteUnits(i) ==
  {<<<<ResidueAt(i)>>>> \o BracketRun(k) : k \in 0 .. MaxSiteMods}
  \cup {<<<<ResidueAt(i)>>, Braced(NameA)>>}

\* the token lists of residues i .. n - 1, each with its modifications
RECURSIVE SiteBodies(_, _)
SiteBodies(i, n) ==
  IF i >= n THEN {<<>>}
  ELSE {u \o rest : u \in SiteUnits(i), rest \in SiteBodies(i + 1, n)}

NTermPrefixes == {<<>>} \cup {BracketRun(k) \o <<<<"-">>>> : k \in 1 .. MaxTerminalMods}

CTermSuffixes == {<<>>} \cup {<<<<"-">>>> \o BracketRun(k) : k \in 1 .. MaxTerminalMods}

\* residues with site modifications between optional terminal modifications
SiteInputs ==
  {n \o b \o c : n \in NTermPrefixes,
                 b \in UNION {SiteBodies(0, len) : len \in 1 .. MaxResidues},
                 c \in CTermSuffixes}

\* the residue codes at indices i .. n - 1, one token each
Residues(i, n) == [j \in 1 .. n - i |-> <<ResidueAt(i + j - 1)>>]

\* one range (residues)[a] with residues before and after it
RangeInputs ==
  {Residues(0, rs) \o <<<<"(">>>> \o Residues(rs, re + 1)
     \o <<<<")">>, Bracketed(NameA)>> \o Residues(re + 1, n) :
     <<rs, re, n>> \in {t \in (0 .. MaxResidues) \X (0 .. MaxResidues) \X (1 .. MaxResidues) :
                          t[1] <= t[2] /\ t[2] < t[3]}}

\* residues with one closing enclosure character that nothing opened
StrayCloserInputs ==
  {Residues(0, k) \o <<<<c>>>> \o Residues(k, n) :
     <<k, n, c>> \in {t \in (0 .. MaxResidues) \X (1 .. MaxResidues) \X {"]", "}"} :
                        t[1] <= t[2]}}

\* a sequence ambiguity (?EK) written before the residues, after optional
\* N-terminal modifications
AmbiguityInputs ==
  {n \o <<<<"(", "?", "E", "K", ")">>>> \o b :
     n \in NTermPrefixes,
     b \in UNION {SiteBodies(0, len) : len \in 1 .. MaxResidues}}

MaxChains == 2

\* the chains a multi-chain input is assembled from: plain, with a site
\* modification, with a fixed global modification, with a range, with a
\* sequence ambiguity
ChainPieces ==
  {<<<<"P">>, <<"E">>>>,
   <<<<"P">>, Bracketed(NameA), <<"E">>>>,
   <<<<"<", "[", "a", "]", "@", "P", ">">>, <<"P">>, <<"E">>>>,
   <<<<"P">>, <<"(">>, <<"E">>, <<"K">>, <<")">>, Bracketed(NameA)>>,
   <<<<"(", "?", "E", "K", ")">>, <<"P">>>>}

\* n chains joined by "//"
RECURSIVE ChainLists(_)
ChainLists(n) ==
  IF n = 1 THEN ChainPieces
  ELSE {c \o <<<<"/", "/">>>> \o rest : c \in ChainPieces, rest \in ChainLists(n - 1)}

ChainInputs == UNION {ChainLists(n) : n \in 2 .. MaxChains}

\* one chain whose only "//" is inside a modification body
NestedSeparatorInputs ==
  {Residues(0, k) \o <<Bracketed(NameA \o <<"/", "/">> \o NameB)>> \o Residues(k, n) :
     <<k, n>> \in {t \in (1 .. MaxResidues) \X (1 .. MaxResidues) : t[1] <= t[2]}}

\* peptidoforms joined by '+' at top level
ChimericInputs ==
  {a \o <<<<"+">>>> \o b :
     a \in UNION {SiteBodies(0, len) : len \in 1 .. MaxResidues - 1},
     b \in {Residues(0, len) : len \in 1 .. MaxResidues}}

\* a charge suffix /z, optionally followed by an ionic species
ChargeSuffixes ==
  {<<<<"/", "2">>>>, <<<<"/", "-", "1">>>>, <<<<"/", "2">>, <<"[", "+", "N", "a", "+", "]">>>>}

ChargeInputs ==
  {b \o c : b \in UNION {SiteBodies(0, len) : len \in 1 .. MaxResidues - 1},
            c \in ChargeSuffixes}

MaxGlobalMods == 2

\* target lists of a fixed global modification
TargetLists == {<<"P">>, <<"P", ",", "K">>}

\* a fixed global modification, written <body@targets> or <[body]@targets>
GlobalModTokens ==
  {<<"<">> \o b \o <<"@">> \o t \o <<">">> :
     b \in {NameA, NameB, Bracketed(NameA), Bracketed(NameB)}, t \in TargetLists}

\* n global modifications, one token each
RECURSIVE GlobalModLists(_)
GlobalModLists(n) ==
  IF n = 0 THEN {<<>>}
  ELSE {<<g>> \o rest : g \in GlobalModTokens, rest \in GlobalModLists(n - 1)}

\* one or more fixed global modifications before the residues
GlobalInputs ==
  {g \o b : g \in UNION {GlobalModLists(n) : n \in 1 .. MaxGlobalMods},
            b \in {Residues(0, 2), <<<<"P">>, Bracketed(NameB), <<"E">>>>}}

MaxUnknownGroups == 3

MaxUnknownCount == 2

\* one unknown-position group of n modifications with the same body:
\* [body]^n or n copies of [body]
UnknownGroups ==
  UNION {{<<Bracketed(b), <<"^">> \o NatToDigits(n)>>, [j \in 1 .. n |-> Bracketed(b)]} :
           <<b, n>> \in {NameA, NameB} \X (1 .. MaxUnknownCount)}

RECURSIVE UnknownGroupLists(_)
UnknownGroupLists(n) ==
  IF n = 0 THEN {<<>>}
  ELSE {g \o rest : g \in UnknownGroups, rest \in UnknownGroupLists(n - 1)}

\* unknown-position groups, '?', residues
UnknownInputs ==
  {g \o <<<<"?">>>> \o Residues(0, 2) :
     g \in UNION {UnknownGroupLists(n) : n \in 1 .. MaxUnknownGroups}}

\* modification bodies that define or refer to a crosslink or a branch
CrosslinkBodies ==
  {<<"a", "#", "X", "L", "1">>, <<"#", "X", "L", "1">>,
   <<"a", "#", "B", "R", "A", "N", "C", "H">>, <<"#", "B", "R", "A", "N", "C", "H">>}

\* residue i alone or followed by one crosslink or branch body
CrosslinkUnits(i) ==
  {<<<<ResidueAt(i)>>>>} \cup {<<<<ResidueAt(i)>>, Bracketed(b)>> : b \in CrosslinkBodies}

RECURSIVE CrosslinkChain(_, _)
CrosslinkChain(i, n) ==
  IF i >= n THEN {<<>>}
  ELSE {u \o rest : u \in CrosslinkUnits(i), rest \in CrosslinkChain(i + 1, n)}

\* one chain of residues with crosslink and branch bodies, or two chains of
\* one residue each
CrosslinkInputs ==
  UNION {CrosslinkChain(0, len) : len \in 1 .. MaxResidues}
  \cup {c1 \o <<<<"/", "/">>>> \o c2 : c1 \in CrosslinkChain(0, 1), c2 \in CrosslinkChain(1, 2)}

\* an enclosure that is opened and never closed, or closed and never opened
UnbalancedPieces ==
  {<<"<", "a", "@", "P">>, <<"[", "a">>, <<"{", "a">>, <<"(">>, <<"(", "?", "E">>, <<")">>}

\* residues with one unbalanced piece between them; an unclosed '[' in a
\* terminal, unknown-position or range-modification position
UnbalancedInputs ==
  {Residues(0, k) \o <<u>> \o Residues(k, n) :
     <<k, n, u>> \in {t \in (0 .. MaxResidues) \X (1 .. MaxResidues) \X UnbalancedPieces :
                        t[1] <= t[2]}}
  \cup UNION {{<<<<"[", "a">>, <<"-">>>> \o Residues(0, n),
               Residues(0, n) \o <<<<"-">>, <<"[", "a">>>>,
               <<<<"[", "a">>, <<"?">>>> \o Residues(0, n),
               <<<<"(">>>> \o Residues(0, n) \o <<<<")">>, <<"[", "a">>>>,
               <<<<"{", "G", "l", "y", "c", "a", "n", ":", "a">>>> \o Residues(0, n)} :
              n \in 1 .. MaxResidues}

\* a residue of the mass family, alone or with one modification: a mass
\* shift or a name
MassUnits ==
  {<<<<r>>>> \o m : r \in {"P", "X"},
                   m \in {<<>>, <<Bracketed(<<"+", "4", "2", ".", "0", "1", "1">>)>>,
                          <<Bracketed(NameA)>>}}

RECURSIVE MassChains(_)
MassChains(n) ==
  IF n = 0 THEN {<<>>}
  ELSE {u \o rest : u \in MassUnits, rest \in MassChains(n - 1)}

MassInputs == UNION {MassChains(n) : n \in 1 .. MaxResidues}

\* the massDict arguments of calculateMass: none, or one with a modification
\* name and the gap residue
MassDicts ==
  {Null, Some((NameA :> Dec(79, 966331, 6)) @@ (<<"X">> :> Dec(110, 0, 1)))}

FragmentTypes == {<<"b", "y">>, <<"a", "x">>}

\* a bare mass shift and a body with a '#' suffix
MassShiftBody == <<"+", "4", "2", ".", "0", "1", "1">>

HashSuffixBody == <<"a", "#", "g", "1">>

\* bodies of the modifications written in a reserved place
ReservedBodies == {NameA, MassShiftBody, HashSuffixBody}

\* unknown-position, labile, N-terminal and C-terminal modifications, each
\* absent or written once, around two residues
ReservedInputs ==
  {u \o l \o n \o Residues(0, 2) \o c :
     u \in {<<>>} \cup {<<Bracketed(b), <<"?">>>> : b \in ReservedBodies},
     l \in {<<>>} \cup {<<Braced(STR_GLYCAN_PREFIX \o b)>> : b \in ReservedBodies},
     n \in {<<>>} \cup {<<Bracketed(b), <<"-">>>> : b \in ReservedBodies},
     c \in {<<>>} \cup {<<<<"-">>, Bracketed(b)>> : b \in ReservedBodies}}

\* the residues i .. n - 1, the one at index at followed by [a]
ResiduesWithSite(i, n, at) ==
  Residues(i, at + 1) \o <<Bracketed(NameA)>> \o Residues(at + 1, n)

\* one range (residues)[Ox] with a site modification [a] on one of its residues
RangeSiteInputs ==
  {Residues(0, t[1]) \o <<<<"(">>>> \o ResiduesWithSite(t[1], t[2] + 1, t[4])
     \o <<<<")">>, Bracketed(NameB)>> \o Residues(t[2] + 1, t[3]) :
     t \in {t \in (0 .. MaxResidues) \X (0 .. MaxResidues) \X (1 .. MaxResidues + 1)
                   \X (0 .. MaxResidues) :
              t[1] <= t[4] /\ t[4] <= t[2] /\ t[2] < t[3]}}

\* N-terminal modifications before residues that hold a '?' further on: in
\* a sequence ambiguity (?EK) or inside the body of a site modification
QuestionLaterInputs ==
  {BracketRun(m) \o <<<<"-">>>> \o Residues(0, k) \o <<q>> \o Residues(k, n) :
     <<m, k, n, q>> \in {t \in (1 .. MaxTerminalMods) \X (0 .. MaxResidues) \X (1 .. MaxResidues)
                              \X {<<"(", "?", "E", "K", ")">>, Bracketed(<<"a", "?">>)} :
                          t[2] <= t[3] /\ (t[4][1] = "[" => t[2] >= 1)}}

\* bracket interiors that are pure signed numbers
ShiftBodyA == <<"+", "1", ".", "5">>

ShiftBodyB == <<"-", "1", "0", ".", "0">>

\* a residue P or X with up to two mass-shift brackets
ShiftResidueUnits ==
  {<<<<r>>>> \o bs :
     r \in {"P", "X"},
     bs \in {<<>>, <<Bracketed(ShiftBodyA)>>, <<Bracketed(ShiftBodyB)>>,
             <<Bracketed(ShiftBodyA), Bracketed(ShiftBodyB)>>}}

\* a one-residue range with mass-shift brackets after it
ShiftRangeUnits ==
  {<<<<"(">>, <<r>>, <<")">>>> \o bs :
     <<r, bs>> \in {<<"E", <<Bracketed(ShiftBodyA)>>>>, <<"X", <<Bracketed(ShiftBodyB)>>>>,
                   <<"E", <<Bracketed(ShiftBodyA), Bracketed(ShiftBodyB)>>>>}}

\* mass-shift brackets after residues, after an X and after a range that
\* does not start the sequence
MassShiftInputs ==
  {u1 \o u2 \o u3 :
     u1 \in ShiftResidueUnits,
     u2 \in {<<>>} \cup ShiftResidueUnits \cup ShiftRangeUnits,
     u3 \in {<<>>, <<<<"P">>>>}}

\* one crosslink or branch body on a residue P or X, alone or between residues
ClassifyInputs ==
  {pre \o <<<<r>>, Bracketed(b)>> \o post :
     pre \in {<<>>, <<<<"P">>>>}, r \in {"P", "X"}, b \in CrosslinkBodies,
     post \in {<<>>, <<<<"E">>>>}}

\* the largest number of '|'-separated components of one bracket
MaxComponents == 3

\* the components a bracket interior is joined from
PipeComponents ==
  {NameA, NameB, STR_INFO \o <<":", "x">>, STR_INFO \o <<":", "y">>,
   <<"U", ":", "a">>, ShiftBodyA}

\* the lists of 1 .. n components
RECURSIVE ComponentLists(_)
ComponentLists(n) ==
  IF n = 0 THEN {<<>>}
  ELSE {<<>>} \cup {<<c>> \o rest : c \in PipeComponents, rest \in ComponentLists(n - 1)}

\* one residue with one bracket of '|'-separated components
PipeInputs ==
  {<<<<"P">>, Bracketed(Join(cs, <<"|">>))>> : cs \in ComponentLists(MaxComponents) \ {<<>>}}

\* one or two sequence ambiguities, each written before a residue
AmbiguityAtInputs ==
  {Residues(0, t[1]) \o <<<<"(", "?", "E", "K", ")">>>> \o Residues(t[1], t[2]) \o q
     \o Residues(t[2], t[3]) :
     <<t, q>> \in {x \in ((0 .. MaxResidues) \X (0 .. MaxResidues) \X (1 .. MaxResidues))
                         \X {<<>>, <<<<"(", "?", "P", "E", ")">>>>} :
                     /\ x[1][1] <= x[1][2] /\ x[1][2] < x[1][3]
                     /\ x[2] = <<>> => x[1][1] = x[1][2]}}

\* the largest number of pieces a glycan text is assembled from
MaxGlycanPieces == 3

\* pieces of glycan texts: names, a count, and characters that belong to no
\* name
GlycanPieces ==
  {<<"H", "e", "x">>, <<"H", "e", "x", "N", "A", "c">>, <<"d", "H", "e", "x">>,
   <<"S">>, <<"(", "1", "2", ")">>, <<"(">>, <<"x">>, <<" ">>}

RECURSIVE GlycanPieceLists(_)
GlycanPieceLists(n) ==
  IF n = 0 THEN {<<>>}
  ELSE {<<>>} \cup {<<c>> \o rest : c \in GlycanPieces, rest \in GlycanPieceLists(n - 1)}

GlycanInputs == GlycanPieceLists(MaxGlycanPieces)

\* a payload that holds a ':' of its own
ColonPayload == <<"a", ":", "b">>

\* one bracket whose last component is SOURCE:payload with a known source,
\* as the primary value or after a plain name, with or without a '#' suffix
ColonInputs ==
  {<<<<"P">>, Bracketed(pre \o src \o <<":">> \o ColonPayload \o suf)>> \o post :
     pre \in {<<>>, <<"O", "x", "|">>},
     src \in {STR_INFO, <<"U">>},
     suf \in {<<>>, <<"#", "g", "1">>},
     post \in {<<>>, <<<<"E">>>>}}

\* a modification name that holds a '-'
HyphenBody == <<"a", "-", "b">>

\* residues with the hyphenated name as an N-terminal, C-terminal, [...] site
\* or {...} site modification, at least one of them
HyphenInputs ==
  {n \o Residues(0, t[1]) \o s \o Residues(t[1], t[2]) \o c :
     <<n, s, c, t>> \in
        {x \in {<<>>, <<Bracketed(HyphenBody), <<"-">>>>}
               \X {<<>>, <<Bracketed(HyphenBody)>>, <<Braced(HyphenBody)>>}
               \X {<<>>, <<<<"-">>, Bracketed(HyphenBody)>>}
               \X ((1 .. MaxResidues) \X (1 .. MaxResidues)) :
           /\ x[4][1] <= x[4][2]
           /\ x[1] # <<>> \/ x[2] # <<>> \/ x[3] # <<>>}}

\* the inputs modifications are added to: residues, the first one bare or
\* modified
AddModsInputs ==
  {<<<<"P">>>> \o m \o Residues(1, n) : m \in {<<>>, <<Bracketed(NameB)>>}, n \in 1 .. MaxResidues}

\* the modification lists and the dictionaries handed to addModifications; the
\* key MaxResidues is the position of no residue
AddedMods ==
  {<<Modification(NameA, ModDefaults)>>,
   <<Modification(NameB, ModDefaults), Modification(NameA, ModDefaults)>>}

ModDicts == UNION {[K -> AddedMods] : K \in SUBSET (0 .. MaxResidues)}

\* base sequences of the generator: every string of 1 .. MaxResidues residues
\* over P, E and K
RECURSIVE ResidueStrings(_)
ResidueStrings(n) ==
  IF n = 0 THEN {<<>>}
  ELSE {<<>>} \cup {<<<<c>>>> \o rest : c \in {"P", "E", "K"}, rest \in ResidueStrings(n - 1)}

GeneratorInputs == ResidueStrings(MaxResidues) \ {<<>>}

\* the modifications handed to the generator, each with a regex
StaticModP ==
  GeneratorMod(Modification(NameA, ModDefaults), Some({"P"}), 0, FALSE)

StaticModE ==
  GeneratorMod(Modification(NameB, ModDefaults), Some({"E"}), 0, FALSE)

VariableModK ==
  GeneratorMod(Modification(<<"c">>, [ModDefaults EXCEPT !.modType = "variable"]),
               Some({"K"}), 0, FALSE)

VariableModEK ==
  GeneratorMod(Modification(<<"d">>, [ModDefaults EXCEPT !.modType = "variable"]),
               Some({"E", "K"}), 0, FALSE)

StaticModLists == {<<>>, <<StaticModP>>, <<StaticModP, StaticModE>>}

VariableModLists == {<<>>, <<VariableModK>>, <<VariableModEK>>}

Families ==
  {"site", "range", "strayCloser", "ambiguity", "chains", "nestedSeparator",
   "chimeric", "charge", "global", "unknown", "crosslink", "unbalanced", "reserved",
   "rangeSite", "questionLater", "massShift",
   "classify",
   "pipes",
   "ambiguityAt",
   "colon",
   "hyphen"}

InputsOf(f) ==
  CASE f = "site" -> SiteInputs
    [] f = "range" -> RangeInputs
    [] f = "strayCloser" -> StrayCloserInputs
    [] f = "ambiguity" -> AmbiguityInputs
    [] f = "chains" -> ChainInputs
    [] f = "nestedSeparator" -> NestedSeparatorInputs
    [] f = "chimeric" -> ChimericInputs
    [] f = "charge" -> ChargeInputs
    [] f = "global" -> GlobalInputs
    [] f = "unknown" -> UnknownInputs
    [] f = "crosslink" -> CrosslinkInputs
    [] f = "unbalanced" -> UnbalancedInputs
    [] f = "reserved" -> ReservedInputs
    [] f = "rangeSite" -> RangeSiteInputs
    [] f = "questionLater" -> QuestionLaterInputs
    [] f = "massShift" -> MassShiftInputs
    [] f = "classify" -> ClassifyInputs
    [] f = "pipes" -> PipeInputs
    [] f = "ambiguityAt" -> AmbiguityAtInputs
    [] f = "colon" -> ColonInputs
    [] f = "hyphen" -> HyphenInputs

\* ------------------------------------------------------------------------
\* The state machine: a caller parses one input and queries the result
\* ------------------------------------------------------------------------

VARIABLES family, tokens, input, sequence, error, output, stripped,
          massResult, fragments, slice, result

vars == <<family, tokens, input, sequence, error, output, stripped, massResult, fragments, slice,
          result>>

Init ==
  /\ family \in Families
  /\ tokens \in InputsOf(family)
  /\ input = Concat(tokens)
  /\ sequence = Null
  /\ error = Null
  /\ output = Null
  /\ stripped = Null
  /\ massResult = Null
  /\ fragments = Null
  /\ slice = Null
  /\ result = Null

\* seq = Sequence.fromProforma(input): returns a Sequence or throws
CallFromProforma ==
  /\ sequence = Null /\ error = Null
  /\ \E r \in {FromProforma(input)} :
        /\ sequence' = IF r.err = Null THEN Some(r) ELSE Null
        /\ error' = r.err
  /\ UNCHANGED <<result, family, tokens, input, output, stripped, massResult, fragments, slice>>

\* output = seq.toProforma()
CallToProforma ==
  /\ sequence # Null /\ output = Null
  /\ output' = Some(ToProforma(sequence[1]))
  /\ UNCHANGED <<result, family, tokens, input, sequence, error, stripped, massResult, fragments, slice>>

\* stripped = seq.toStrippedString()
CallToStrippedString ==
  /\ sequence # Null /\ stripped = Null
  /\ stripped' = Some(ToStrippedString(sequence[1].main))
  /\ UNCHANGED <<result, family, tokens, input, sequence, error, output, massResult, fragments, slice>>

Next == CallFromProforma \/ CallToProforma \/ CallToStrippedString

Spec == Init /\ [][Next]_vars

\* A caller parses one input of the mass family, then adds up its residues,
\* fragments it, or takes a slice of it

MassInit ==
  /\ family = "mass"
  /\ tokens \in MassInputs
  /\ input = Concat(tokens)
  /\ sequence = Null
  /\ error = Null
  /\ output = Null
  /\ stripped = Null
  /\ massResult = Null
  /\ fragments = Null
  /\ slice = Null
  /\ result = Null

\* massResult = calculateMass(seq.seq, massDict, NTerminus, 0, withWater)
CallCalculateMass ==
  /\ sequence # Null /\ massResult = Null
  /\ \E massDict \in MassDicts, NTerminus \in {Zero, H}, withWater \in BOOLEAN :
        massResult' = Some([massDict |-> massDict, NTerminus |-> NTerminus,
                            OTerminus |-> Zero, withWater |-> withWater,
                            result |-> calculateMass(sequence[1].main.seq, massDict,
                                                     NTerminus, Zero, withWater)])
  /\ UNCHANGED <<result, family, tokens, input, sequence, error, output, stripped, fragments, slice>>

\* fragments = [...fragmentNonLabile(seq, fragmentType)]
CallFragmentNonLabile ==
  /\ sequence # Null /\ fragments = Null
  /\ \E fragmentType \in FragmentTypes :
        fragments' = Some([fragmentType |-> fragmentType,
                           result |-> fragmentNonLabile(sequence[1].main, fragmentType)])
  /\ UNCHANGED <<result, family, tokens, input, sequence, error, output, stripped, massResult, slice>>

\* slice = seq.getItem([start, end])
CallGetItem ==
  /\ sequence # Null /\ slice = Null
  /\ \E start \in 0 .. MaxResidues, end \in 0 .. MaxResidues :
        /\ start <= end
        /\ slice' = Some([start |-> start, end |-> end,
                          sequence |-> GetItemSlice(sequence[1].main, start, end).sequence])
  /\ UNCHANGED <<result, family, tokens, input, sequence, error, output, stripped, massResult, fragments>>

MassNext == CallFromProforma \/ CallCalculateMass \/ CallFragmentNonLabile \/ CallGetItem

MassSpec == MassInit /\ [][MassNext]_vars

\* A caller validates one glycan composition

GlycanInit ==
  /\ family = "glycan"
  /\ tokens \in GlycanInputs
  /\ input = Concat(tokens)
  /\ sequence = Null
  /\ error = Null
  /\ output = Null
  /\ stripped = Null
  /\ massResult = Null
  /\ fragments = Null
  /\ slice = Null
  /\ result = Null

\* result = ModificationValue.validateGlycan(input)
CallValidateGlycan ==
  /\ family = "glycan" /\ result = Null
  /\ result' = Some(validateGlycan(input))
  /\ UNCHANGED <<family, tokens, input, sequence, error, output, stripped, massResult,
                 fragments, slice>>

GlycanNext == CallValidateGlycan

GlycanSpec == GlycanInit /\ [][GlycanNext]_vars

\* A caller parses one input and adds modifications to its residues

AddModsInit ==
  /\ family = "addMods"
  /\ tokens \in AddModsInputs
  /\ input = Concat(tokens)
  /\ sequence = Null
  /\ error = Null
  /\ output = Null
  /\ stripped = Null
  /\ massResult = Null
  /\ fragments = Null
  /\ slice = Null
  /\ result = Null

\* seq.addModifications(modDict); result keeps modDict and the residues before
CallAddModifications ==
  /\ sequence # Null /\ result = Null
  /\ \E modDict \in ModDicts :
        /\ sequence' = Some([sequence[1] EXCEPT
                               !.main.seq = addModifications(sequence[1].main.seq, modDict)])
        /\ result' = Some([modDict |-> modDict, before |-> sequence[1].main.seq])
  /\ UNCHANGED <<family, tokens, input, error, output, stripped, massResult, fragments, slice>>

AddModsNext == CallFromProforma \/ CallAddModifications

AddModsSpec == AddModsInit /\ [][AddModsNext]_vars

\* A caller generates the modification scenarios of one base sequence

GeneratorInit ==
  /\ family = "generator"
  /\ tokens \in GeneratorInputs
  /\ input = Concat(tokens)
  /\ sequence = Null
  /\ error = Null
  /\ output = Null
  /\ stripped = Null
  /\ massResult = Null
  /\ fragments = Null
  /\ slice = Null
  /\ result = Null

\* result = [...new ModdedSequenceGenerator(input, variableMods, staticMods).generate()]
CallGenerate ==
  /\ family = "generator" /\ result = Null
  /\ \E staticMods \in StaticModLists, variableMods \in VariableModLists :
        result' = Some([staticMods |-> staticMods, variableMods |-> variableMods,
                        scenarios |-> Generate(input, variableMods, staticMods)])
  /\ UNCHANGED <<family, tokens, input, sequence, error, output, stripped, massResult,
                 fragments, slice>>

GeneratorNext == CallGenerate

GeneratorSpec == GeneratorInit /\ [][GeneratorNext]_vars

\* ------------------------------------------------------------------------
\* Properties
\* ------------------------------------------------------------------------

IsResidueToken(t) == Len(t) = 1 /\ t[1] \in AA_mass

\* the interior of a token written with an opening and a closing character
Interior(t) == SubSeq(t, 2, Len(t) - 1)

\* for each residue written in toks, the bodies of the [...] tokens written
\* directly after it (after the residue or after the modifications that follow it)
RECURSIVE WrittenSiteBodies(_, _, _)
WrittenSiteBodies(toks, acc, attached) ==
  IF toks = <<>> THEN acc
  ELSE LET t == toks[1]
       IN  IF IsResidueToken(t)
           THEN WrittenSiteBodies(Tail(toks), Append(acc, <<>>), TRUE)
           ELSE IF attached /\ t[1] = "["
           THEN WrittenSiteBodies(Tail(toks),
                                  [acc EXCEPT ![Len(acc)] = Append(@, Interior(t))], TRUE)
           ELSE IF attached /\ t[1] = "{"
           THEN WrittenSiteBodies(Tail(toks), acc, TRUE)
           ELSE WrittenSiteBodies(Tail(toks), acc, FALSE)

\* a occurs in b as a subsequence: its elements in order, others between
RECURSIVE IsSubsequence(_, _)
IsSubsequence(a, b) ==
  IF a = <<>> THEN TRUE
  ELSE IF b = <<>> THEN FALSE
  ELSE IF a[1] = b[1] THEN IsSubsequence(Tail(a), Tail(b))
  ELSE IsSubsequence(a, Tail(b))

\* the bodies of the modifications of a residue, in order
ModBodies(aa) == [k \in 1 .. Len(aa.mods) |-> aa.mods[k].value]

SingleChainFamilies == {"site", "range", "strayCloser", "ambiguity"}

\* C1: an input made of residues, each optionally followed by [Name] site
\* modifications or one {Name}, between optional N-terminal and C-terminal
\* [Name] groups, is accepted by fromProforma and toProforma returns it
\* character for character
C1_RoundTrip ==
  family = "site" =>
    /\ error = Null
    /\ output # Null => output[1] = input

C1_Witness ==
  /\ family = "site"
  /\ output # Null /\ output[1] = input
  /\ StartsWith(input, <<"[">>) /\ Includes(input, <<"]", "-">>)
  /\ Includes(input, <<"-", "[">>)
  /\ Includes(input, <<"{">>)
  /\ Includes(input, <<"P", "[", "a", "]", "[", "O", "x", "]">>)

\* C2: on every accepted single-chain input, the bodies of the [...] groups
\* written directly after residue i are found on seq[i].mods, in input order
C2_SiteModsAttached ==
  (family \in SingleChainFamilies /\ sequence # Null) =>
    LET written == WrittenSiteBodies(tokens, <<>>, FALSE)
        seq == sequence[1].main.seq
    IN  \A i \in 1 .. Len(written) :
          written[i] # <<>> =>
            i <= Len(seq) /\ IsSubsequence(written[i], ModBodies(seq[i]))

\* C3: on every accepted single-chain input, toStrippedString is the base
\* sequence of ProFormaParser.parse, one character per residue, residue codes only
C3_StrippedString ==
  (family \in SingleChainFamilies /\ sequence # Null /\ stripped # Null) =>
    /\ stripped[1] = Parse(input).baseSequence
    /\ Len(stripped[1]) = Len(sequence[1].main.seq)
    /\ \A k \in 1 .. Len(stripped[1]) : stripped[1][k] \in AA_mass

\* the range written in toks: the residue indices of its first and last residue
WrittenRange(toks) ==
  LET open == CHOOSE k \in 1 .. Len(toks) : toks[k] = <<"(">>
      close == CHOOSE k \in 1 .. Len(toks) : toks[k] = <<")">>
  IN  [rs |-> open - 1, re |-> close - 3, body |-> Interior(toks[close + 1])]

IsRangeMod(mod, r) ==
  /\ mod.inRange /\ mod.rangeStart = Some(r.rs) /\ mod.rangeEnd = Some(r.re)
  /\ mod.value = r.body

\* C4: an input with a range (residues)[body] over residues rs..re, rs >= 0, is
\* accepted, and afterwards exactly the residues rs..re carry a modification
\* with inRange, rangeStart = rs, rangeEnd = re and that body
C4_RangeCoverage ==
  family = "range" =>
    /\ error = Null
    /\ sequence # Null =>
         LET r == WrittenRange(tokens)
             seq == sequence[1].main.seq
         IN  \A i \in 1 .. Len(seq) :
               (i - 1 \in r.rs .. r.re)
                 <=> \E k \in 1 .. Len(seq[i].mods) : IsRangeMod(seq[i].mods[k], r)

\* the pieces of a token list between the tokens equal to sep
RECURSIVE TokenPieces(_, _, _)
TokenPieces(toks, sep, piece) ==
  IF toks = <<>> THEN <<piece>>
  ELSE IF toks[1] = sep THEN <<piece>> \o TokenPieces(Tail(toks), sep, <<>>)
  ELSE TokenPieces(Tail(toks), sep, Append(piece, toks[1]))

\* the residue codes written in a token list
WrittenResidues(toks) == Concat(SelectSeq(toks, IsResidueToken))

\* C5: a "//" inside a modification body does not separate chains (the input
\* is one chain and the body is kept whole), and the "//" at top level split
\* the input into its chains, in input order, chains[0] being the result
C5_ChainSeparator ==
  /\ family = "nestedSeparator" =>
       /\ error = Null
       /\ sequence # Null =>
            /\ ~sequence[1].isMultiChain
            /\ ToStrippedString(sequence[1].main) = WrittenResidues(tokens)
            /\ \E i \in 1 .. Len(sequence[1].main.seq) :
                 ModBodies(sequence[1].main.seq[i]) = <<NameA \o <<"/", "/">> \o NameB>>
  /\ (family = "chains" /\ sequence # Null) =>
       LET pieces == TokenPieces(tokens, <<"/", "/">>, <<>>)
           s == sequence[1]
       IN  /\ s.isMultiChain
           /\ Len(s.chains) = Len(pieces)
           /\ s.chains[1] = s.main
           /\ \A k \in 1 .. Len(pieces) :
                s.chains[k] = FromProformaChain(Concat(pieces[k]))

\* C6: the serialization of a multi-chain sequence is the chains' own
\* serializations joined by "//", each with its own global modifications,
\* ranges and sequence ambiguities, and it is the input
C6_MultiChainRoundTrip ==
  (family = "chains" /\ output # Null) =>
    LET s == sequence[1]
    IN  /\ output[1] = Join([k \in 1 .. Len(s.chains) |->
                               ChainToProforma(s.chains[k], s.chains[k])],
                            <<"/", "/">>)
        /\ output[1] = input

\* C7: a '+' at top level separates peptidoforms: the input is accepted and
\* the sequence returned is the first peptidoform
C7_Chimeric ==
  family = "chimeric" =>
    /\ error = Null
    /\ sequence # Null =>
         ToStrippedString(sequence[1].main)
           = WrittenResidues(TokenPieces(tokens, <<"+">>, <<>>)[1])

\* C8: a trailing /z, with or without [ionic], is accepted, adds no residue,
\* and toProforma writes it back
C8_Charge ==
  family = "charge" =>
    /\ error = Null
    /\ sequence # Null =>
         ToStrippedString(sequence[1].main) = WrittenResidues(tokens)
    /\ output # Null => output[1] = input

\* a fixed global modification token in its bracketed form <[body]@targets>
BracketedGlobal(t) ==
  IF t[1] = "<" /\ t[2] # "["
  THEN LET at == IndexOf(t, <<"@">>, 0)
       IN  <<"<">> \o Bracketed(Substring(t, 1, at)) \o SubstringFrom(t, at)
  ELSE t

\* the parts of a fixed global modification token: body and target list
GlobalModBody(t) ==
  LET b == BracketedGlobal(t) IN Substring(b, 2, IndexOf(b, <<"@">>, 0) - 1)

GlobalModTargets(t) ==
  Split(Substring(t, IndexOf(t, <<"@">>, 0) + 1, Len(t) - 1), <<",">>)

\* C9 as claimed: an input beginning with fixed global modifications, written
\* <body@targets> or <[body]@targets>, is accepted and toProforma returns it
C9_GlobalRoundTrip ==
  family = "global" =>
    /\ error = Null
    /\ output # Null => output[1] = input

\* C9 amended: such an input is accepted, each global modification is parsed
\* to its body and target list whichever way it was written, and toProforma
\* writes every one of them as <[body]@targets>; the input is returned
\* exactly when all of them were written with the brackets
C9_GlobalBracketedForm ==
  family = "global" =>
    /\ error = Null
    /\ sequence # Null =>
         LET written == SelectSeq(tokens, LAMBDA t : t[1] = "<")
             globalMods == sequence[1].main.globalMods
         IN  /\ Len(globalMods) = Len(written)
             /\ \A k \in 1 .. Len(written) :
                  /\ globalMods[k].globalModType = "fixed"
                  /\ globalMods[k].mod.value = GlobalModBody(written[k])
                  /\ globalMods[k].targetResidues = Some(GlobalModTargets(written[k]))
    /\ output # Null =>
         output[1] = Concat([k \in 1 .. Len(tokens) |-> BracketedGlobal(tokens[k])])

C9_Witness ==
  /\ family = "global"
  /\ output # Null
  /\ output[1] # input
  /\ StartsWith(input, <<"<", "[", "O", "x", "]", "@", "P", ",", "K", ">", "<", "a", "@", "P", ">">>)
  /\ StartsWith(output[1], <<"<", "[", "O", "x", "]", "@", "P", ",", "K", ">",
                             "<", "[", "a", "]", "@", "P", ">", "P">>)

\* the bodies written by the unknown-position groups of toks, each as many
\* times as its group says
RECURSIVE WrittenUnknownBodies(_)
WrittenUnknownBodies(toks) ==
  IF toks = <<>> \/ toks[1] = <<"?">> THEN <<>>
  ELSE IF Len(toks) > 1 /\ toks[2][1] = "^"
  THEN Repeat(Interior(toks[1]), DigitsToNat(Tail(toks[2])))
       \o WrittenUnknownBodies(Tail(Tail(toks)))
  ELSE <<Interior(toks[1])>> \o WrittenUnknownBodies(Tail(toks))

\* number of elements of l equal to x
CountOf(l, x) == Cardinality({k \in 1 .. Len(l) : l[k] = x})

\* for the bodies l: one [body]^n? or [body]? per distinct body, at the place
\* of its first occurrence
GroupedUnknownText(l) ==
  Concat([k \in 1 .. Len(l) |->
            IF \E j \in 1 .. k - 1 : l[j] = l[k] THEN <<>>
            ELSE IF CountOf(l, l[k]) > 1
            THEN Bracketed(l[k]) \o <<"^">> \o NatToDigits(CountOf(l, l[k])) \o <<"?">>
            ELSE Bracketed(l[k]) \o <<"?">>])

\* C10: [body]^N? and N copies of [body] before '?' put N modifications with
\* that body under key -4, in input order; toProforma writes the key -4
\* modifications grouped by body in order of first appearance, [body]^n? for
\* a body that occurs n > 1 times and [body]? for one that occurs once
C10_UnknownPosition ==
  family = "unknown" =>
    LET written == WrittenUnknownBodies(tokens) IN
    /\ error = Null
    /\ sequence # Null =>
         LET mods == sequence[1].main.mods[-4]
         IN  /\ [k \in 1 .. Len(mods) |-> mods[k].value] = written
             /\ \A k \in 1 .. Len(mods) : mods[k].modType = "unknown_position"
    /\ output # Null =>
         output[1] = GroupedUnknownText(written) \o WrittenResidues(tokens)

C10_Witness ==
  /\ family = "unknown"
  /\ input = Concat(<<Bracketed(NameA), <<"^", "2">>, Bracketed(NameB), Bracketed(NameA),
                      <<"?">>, <<"P">>, <<"E">>>>)
  /\ sequence # Null /\ Len(sequence[1].main.mods[-4]) = 4
  /\ output = Some(Concat(<<Bracketed(NameA), <<"^", "3", "?">>, Bracketed(NameB),
                            <<"?">>, <<"P">>, <<"E">>>>))

\* every modification on a residue of a chain of s, as <<chain, residue, k>>
ResidueModIds(s) ==
  {<<c, i, k>> \in (1 .. Len(ChainsOf(s))) \X (1 .. MaxResidues) \X (1 .. MaxSiteMods) :
     i <= Len(ChainsOf(s)[c].seq) /\ k <= Len(ChainsOf(s)[c].seq[i].mods)}

ResidueModAt(s, id) == ChainsOf(s)[id[1]].seq[id[2]].mods[id[3]]

\* C11: in every model fromProforma returns, each crosslink reference with id
\* X has exactly one defining modification (crosslinkId = X, not a reference)
\* in the chain set, and each branch reference has a branch definition
C11_CrossReferenceIntegrity ==
  (family = "crosslink" /\ sequence # Null) =>
    \A r \in ResidueModIds(sequence[1]) :
      LET ref == ResidueModAt(sequence[1], r)
      IN  /\ ref.isCrosslinkRef =>
               Cardinality({d \in ResidueModIds(sequence[1]) :
                              /\ ~ResidueModAt(sequence[1], d).isCrosslinkRef
                              /\ ResidueModAt(sequence[1], d).crosslinkId = ref.crosslinkId}) = 1
          /\ ref.isBranchRef =>
               \E d \in ResidueModIds(sequence[1]) : ResidueModAt(sequence[1], d).isBranch

\* C12: ProFormaParser.parse raises an error on every input with an unbalanced
\* enclosure: '<' without '>', '[' without ']', '{' without '}', '(' without
\* ')' (range or sequence ambiguity), ')' without '('
C12_UnbalancedRejected ==
  (family = "unbalanced" /\ (sequence # Null \/ error # Null)) =>
    Parse(input).err # Null

\* the sum of a list of numbers
RECURSIVE SumNums(_)
SumNums(ns) == IF ns = <<>> THEN Zero ELSE AddNum(ns[1], SumNums(Tail(ns)))

\* the table masses of the residues of seq and the masses of their modifications
ResidueMasses(seq) == [i \in 1 .. Len(seq) |-> AA_massValue(seq[i].value)]

AttachedModMasses(seq) ==
  [i \in 1 .. Len(seq) |-> SumNums([k \in 1 .. Len(seq[i].mods) |-> ModMass(seq[i].mods[k])])]

\* a modification that carries a mass shift of its own
HasOwnMass(mod) == mod.modValue.mass # Null \/ Truthy(mod.mass)

\* C13: when every residue is in the residue table (X included) and every
\* modification has a numeric mass, calculateMass without a massDict returns
\* residue masses + modification masses + NTerminus + OTerminus, plus
\* 2H + O exactly when withWater is true
C13_MassSum ==
  (family = "mass" /\ massResult # Null /\ massResult[1].massDict = Null
   /\ \A i \in 1 .. Len(sequence[1].main.seq) :
        \A k \in 1 .. Len(sequence[1].main.seq[i].mods) :
          HasOwnMass(sequence[1].main.seq[i].mods[k])) =>
    /\ massResult[1].result.err = Null
    /\ massResult[1].result.mass =
         SumNums(<<SumNums(ResidueMasses(sequence[1].main.seq)),
                   SumNums(AttachedModMasses(sequence[1].main.seq)),
                   massResult[1].NTerminus, massResult[1].OTerminus,
                   IF massResult[1].withWater THEN SumNums(<<H, H, O>>) ELSE Zero>>)

\* C14: calculateMass fails whenever an attached modification has no mass of
\* its own and no entry in the massDict supplied (or none is supplied)
C14_MissingMassFails ==
  (family = "mass" /\ massResult # Null
   /\ \E i \in 1 .. Len(sequence[1].main.seq) :
        \E k \in 1 .. Len(sequence[1].main.seq[i].mods) :
          /\ ~HasOwnMass(sequence[1].main.seq[i].mods[k])
          /\ \/ massResult[1].massDict = Null
             \/ sequence[1].main.seq[i].mods[k].value \notin DOMAIN massResult[1].massDict[1]) =>
    massResult[1].result.err # Null

\* C15: for n residues fragmentNonLabile yields n - 1 pairs, for i = 1 .. n - 1
\* in order; the left ion holds residues [0, i), ion type the first letter,
\* fragment number i; the right ion holds residues [i, n), ion type the
\* second letter, fragment number n - i
C15_FragmentPairs ==
  (family = "mass" /\ fragments # Null) =>
    LET seq == sequence[1].main.seq
        r == fragments[1].result
    IN  /\ r.err = Null
        /\ Len(r.pairs) = Len(seq) - 1
        /\ \A i \in 1 .. Len(r.pairs) :
             /\ r.pairs[i][1].seq = SubSeq(seq, 1, i)
             /\ r.pairs[i][1].ion_type = fragments[1].fragmentType[1]
             /\ r.pairs[i][1].fragment_number = i
             /\ r.pairs[i][2].seq = SubSeq(seq, i + 1, Len(seq))
             /\ r.pairs[i][2].ion_type = fragments[1].fragmentType[2]
             /\ r.pairs[i][2].fragment_number = Len(seq) - i

\* C16: in the Sequence fromProforma returns and in every slice
\* getItem([start, end]) returns, the residue at index i has position i
C16_PositionIsIndex ==
  /\ (family = "mass" /\ sequence # Null) =>
       \A i \in 1 .. Len(sequence[1].main.seq) : sequence[1].main.seq[i].position = i - 1
  /\ (family = "mass" /\ slice # Null) =>
       \A i \in 1 .. Len(slice[1].sequence.seq) : slice[1].sequence.seq[i].position = i - 1

\* the placement kind that belongs to a reserved key
ReservedKind(k) ==
  IF k \in {-1, -2} THEN "terminal" ELSE IF k = -3 THEN "labile" ELSE "unknown_position"

\* C17: after parse every modification under a reserved key has the placement
\* kind of the key whatever its body is: 'terminal' under -1 and -2, 'labile'
\* under -3, 'unknown_position' under -4
C17_ReservedKinds ==
  (family = "reserved" /\ sequence # Null) =>
    \A k \in -4 .. -1 :
      \A j \in 1 .. Len(sequence[1].main.mods[k]) :
        sequence[1].main.mods[k][j].modType = ReservedKind(k)

\* C18: an input with one range and a site modification on a residue inside
\* the range, the last residue of the range included, is accepted and
\* toProforma returns it: the range modification once, after ')', and the
\* site modification once, after its residue
C18_RangeSiteRoundTrip ==
  family = "rangeSite" =>
    /\ error = Null
    /\ output # Null => output[1] = input

\* the bodies of the [...] tokens written before the first '-' token
RECURSIVE WrittenNTermBodies(_)
WrittenNTermBodies(toks) ==
  IF toks = <<>> \/ toks[1] = <<"-">> THEN <<>>
  ELSE <<Interior(toks[1])>> \o WrittenNTermBodies(Tail(toks))

\* C19: when the input holds a '?' but its leading [...] groups are followed
\* by '-', not by '?', the unknown-position phase emits nothing and consumes
\* nothing: the groups are stored under key -1 and the base sequence is the
\* full residue string
C19_UnknownPhaseFallsThrough ==
  (family = "questionLater" /\ (sequence # Null \/ error # Null)) =>
    LET p == Parse(input)
    IN  /\ p.err = Null
        /\ p.modifications.reserved[-4] = <<>>
        /\ [k \in 1 .. Len(p.modifications.reserved[-1]) |->
              p.modifications.reserved[-1][k].value] = WrittenNTermBodies(tokens)
        /\ p.baseSequence = WrittenResidues(tokens)

\* the number a mass-shift text denotes
ShiftNumber(body) ==
  IF body = ShiftBodyA THEN MkNumStripped(FALSE, 1, <<"5">>)
  ELSE MkNumStripped(TRUE, 10, <<>>)

\* what is written about one mass-shift bracket: its text, its number and
\* its placement
WrittenShift(body, kind) == [text |-> body, mass |-> ShiftNumber(body), modType |-> kind]

\* acc with the entry e added to the residues from .. Len(acc)
AddShift(acc, from, e) ==
  [k \in 1 .. Len(acc) |-> IF k >= from THEN Append(acc[k], e) ELSE acc[k]]

\* the written mass shifts of every residue; prev is the kind of the token
\* before toks ("X", "residue", "open", "close" or "bracket"), rs the number of
\* residues before the open range
RECURSIVE WrittenShifts(_, _, _, _)
WrittenShifts(toks, prev, rs, acc) ==
  IF toks = <<>> THEN acc
  ELSE IF toks[1] = <<"(">> THEN WrittenShifts(Tail(toks), "open", Len(acc), acc)
  ELSE IF toks[1] = <<")">> THEN WrittenShifts(Tail(toks), "close", rs, acc)
  ELSE IF toks[1][1] = "["
  THEN IF prev = "close"
       THEN WrittenShifts(Tail(toks), "close", rs,
                          AddShift(acc, rs + 1, WrittenShift(Interior(toks[1]), "variable")))
       ELSE WrittenShifts(Tail(toks), "bracket", rs,
                          AddShift(acc, Len(acc),
                                   WrittenShift(Interior(toks[1]),
                                                IF prev = "X" THEN "gap" ELSE "static")))
  ELSE WrittenShifts(Tail(toks), IF toks[1] = <<"X">> THEN "X" ELSE "residue", rs,
                     Append(acc, <<>>))

\* the mass shifts the parsed residues carry
ParsedShifts(seq) ==
  [i \in 1 .. Len(seq) |->
     [k \in 1 .. Len(seq[i].mods) |->
        [text |-> seq[i].mods[k].modValue.primaryValue,
         mass |-> ModMass(seq[i].mods[k]),
         modType |-> seq[i].mods[k].modType]]]

\* C20: a bracket whose interior is a pure signed number gives a
\* Modification with primaryValue equal to the text and mass equal to its
\* number; its modType is 'gap' directly after an X, 'variable' for a range
\* modification and 'static' otherwise, and a second bracket on the same X is
\* not a gap
C20_MassShiftModification ==
  (family = "massShift" /\ (sequence # Null \/ error # Null)) =>
    /\ sequence # Null
    /\ ParsedShifts(sequence[1].main.seq) = WrittenShifts(tokens, "residue", 0, <<>>)

\* the index of the first [...] token of toks
RECURSIVE FirstBracketToken(_, _)
FirstBracketToken(toks, k) ==
  IF k > Len(toks) THEN 0
  ELSE IF toks[k][1] = "[" THEN k
  ELSE FirstBracketToken(toks, k + 1)

\* the classification written for a crosslink or branch body
WrittenClass(body) ==
  IF body = <<"a", "#", "X", "L", "1">>
  THEN [modType |-> "crosslink", crosslinkId |-> Some(<<"X", "L", "1">>),
        isCrosslinkRef |-> FALSE, isBranch |-> FALSE, isBranchRef |-> FALSE]
  ELSE IF body = <<"#", "X", "L", "1">>
  THEN [modType |-> "crosslink", crosslinkId |-> Some(<<"X", "L", "1">>),
        isCrosslinkRef |-> TRUE, isBranch |-> FALSE, isBranchRef |-> FALSE]
  ELSE IF body = <<"a", "#", "B", "R", "A", "N", "C", "H">>
  THEN [modType |-> "branch", crosslinkId |-> Null,
        isCrosslinkRef |-> FALSE, isBranch |-> TRUE, isBranchRef |-> FALSE]
  ELSE [modType |-> "branch", crosslinkId |-> Null,
        isCrosslinkRef |-> FALSE, isBranch |-> FALSE, isBranchRef |-> TRUE]

ParsedClass(mod) ==
  [modType |-> mod.modType, crosslinkId |-> mod.crosslinkId,
   isCrosslinkRef |-> mod.isCrosslinkRef, isBranch |-> mod.isBranch,
   isBranchRef |-> mod.isBranchRef]

\* the one modification of the residue before the bracket token at index b
ClassifiedMod(seq, b) == seq[b - 1].mods

\* C21: a site bracket [body#XLid] gives modType 'crosslink' with crosslinkId
\* XLid, [#XLid] a crosslink reference, [body#BRANCH] modType 'branch' with
\* isBranch, [#BRANCH] modType 'branch' with isBranchRef, whatever residue
\* precedes the bracket, X included
C21_SiteClassification ==
  (family = "classify" /\ (sequence # Null \/ error # Null)) =>
    /\ sequence # Null
    /\ \E b \in {FirstBracketToken(tokens, 1)} :
         /\ Len(ClassifiedMod(sequence[1].main.seq, b)) = 1
         /\ ParsedClass(ClassifiedMod(sequence[1].main.seq, b)[1])
              = WrittenClass(Interior(tokens[b]))

\* what one written component stands for: its kind, its payload and its source
WrittenPiece(c) ==
  IF c = ShiftBodyA THEN [type |-> "mass", value |-> c, source |-> Null]
  ELSE IF Includes(c, <<":">>)
  THEN [type |-> IF StartsWith(c, STR_INFO) THEN "info_tag" ELSE "synonym",
        value |-> SubstringFrom(c, IndexOf(c, <<":">>, 0) + 1),
        source |-> Some(Substring(c, 0, IndexOf(c, <<":">>, 0)))]
  ELSE [type |-> "synonym", value |-> c, source |-> Null]

\* the written components without the later copies of a component
RECURSIVE FirstCopies(_, _)
FirstCopies(cs, seen) ==
  IF cs = <<>> THEN <<>>
  ELSE IF cs[1] \in seen THEN FirstCopies(Tail(cs), seen)
  ELSE <<cs[1]>> \o FirstCopies(Tail(cs), seen \cup {cs[1]})

\* the written components of the bracket of a "pipes" input
WrittenComponents == Split(Interior(tokens[2]), <<"|">>)

\* the parsed value of that bracket
PipesModValue == sequence[1].main.seq[1].mods[1].modValue

PipeOrderOf(cs, mv) ==
  /\ Len(mv.pipeValues) = Len(cs)
  /\ \A i \in 1 .. Len(cs) :
       [type |-> mv.pipeValues[i].type, value |-> mv.pipeValues[i].value,
        source |-> mv.pipeValues[i].source] = WrittenPiece(cs[i])
  /\ InfoTags(mv) = [k \in 1 .. Len(SelectSeq(cs, LAMBDA c : StartsWith(c, STR_INFO))) |->
                       WrittenPiece(SelectSeq(cs, LAMBDA c : StartsWith(c, STR_INFO))[k]).value]
  /\ output # Null =>
       output[1] = <<"P">> \o Bracketed(Join(FirstCopies(cs, {}), <<"|">>))

\* C22: a bracket interior with k '|'-separated components gives exactly k
\* pipe values, the i-th from the i-th component; infoTags lists the INFO
\* payloads in input order and toProforma writes the pieces in that order
C22_PipeOrder ==
  (family = "pipes" /\ (sequence # Null \/ error # Null)) =>
    /\ sequence # Null
    /\ PipeOrderOf(WrittenComponents, PipesModValue)

C22_Witness ==
  /\ family = "pipes"
  /\ output # Null
  /\ sequence # Null
  /\ Len(PipesModValue.pipeValues) = 3
  /\ InfoTags(PipesModValue) = <<<<"y">>, <<"x">>>>

\* C23: ModificationValue.mass, and with it Modification.mass, is the mass of
\* the first component classified as a mass, wherever it stands in the pipe
\* list, and is absent only when no component is a mass
C23_FirstMassAnywhere ==
  (family = "pipes" /\ sequence # Null) =>
    IF \E i \in 1 .. Len(WrittenComponents) : WrittenComponents[i] = ShiftBodyA
    THEN /\ PipesModValue.mass = Some(ShiftNumber(ShiftBodyA))
         /\ ModMass(sequence[1].main.seq[1].mods[1]) = ShiftNumber(ShiftBodyA)
    ELSE PipesModValue.mass = Null

\* the sequence ambiguities as written: the text between "(?" and ")" with
\* the number of residue tokens before it
RECURSIVE WrittenAmbiguities(_, _)
WrittenAmbiguities(toks, k) ==
  IF toks = <<>> THEN <<>>
  ELSE IF Len(toks[1]) > 1 /\ toks[1][2] = "?"
  THEN <<[value |-> SubSeq(toks[1], 3, Len(toks[1]) - 1), position |-> k]>>
       \o WrittenAmbiguities(Tail(toks), k)
  ELSE WrittenAmbiguities(Tail(toks), k + 1)

\* C24: a sequence ambiguity (?alt) met after k residues is recorded with
\* position k and toProforma writes it immediately before residue k, so an
\* ambiguity at any position, and several in one chain, round-trip
C24_AmbiguityPosition ==
  (family = "ambiguityAt" /\ (sequence # Null \/ error # Null)) =>
    /\ sequence # Null
    /\ sequence[1].main.sequenceAmbiguities = WrittenAmbiguities(tokens, 0)
    /\ output # Null => output[1] = input

\* the length of a token of a glycan text at index p: the longest name that
\* stands at p, with the (digits) that follows it; 0 when no name stands at p
GlycanTokenAt(s, p) ==
  LET names == {k \in 1 .. Len(monosaccharides) :
                  StartsWith(SubstringFrom(s, p), monosaccharides[k])}
      name == MaxOr({Len(monosaccharides[k]) : k \in names}, 0)
      digits == DigitRun(s, p + name + 1)
  IN  IF name = 0 THEN 0
      ELSE IF Substring(s, p + name, p + name + 1) = <<"(">> /\ digits > 0
              /\ Substring(s, p + name + digits + 1, p + name + digits + 2) = <<")">>
      THEN name + digits + 2
      ELSE name

\* s from index p on is a run of such tokens
RECURSIVE IsGlycanTokens(_, _)
IsGlycanTokens(s, p) ==
  IF p >= Len(s) THEN TRUE
  ELSE GlycanTokenAt(s, p) > 0 /\ IsGlycanTokens(s, p + GlycanTokenAt(s, p))

\* C25: validateGlycan(g) is true iff g without its whitespace is consumed
\* entirely by matching, at the current position each time, the longest
\* monosaccharide name optionally followed by (digits)
C25_GlycanTokens ==
  (family = "glycan" /\ result # Null) =>
    result[1] = IsGlycanTokens(SelectSeq(input, LAMBDA c : c # " "), 0)

\* the last pipe value of the bracket of a "colon" input
ColonPipeValue == PipesModValue.pipeValues[Len(PipesModValue.pipeValues)]

\* C26: for a component SOURCE:body with a known source the pipe value's
\* value is the whole body after the first ':' up to a '#' suffix, further
\* ':' included, so the modification serializes back to its original text
C26_ColonInBody ==
  (family = "colon" /\ (sequence # Null \/ error # Null)) =>
    /\ sequence # Null
    /\ ColonPipeValue.value = ColonPayload
    /\ output # Null => output[1] = input

\* the values of the modifications of a parsed chain, reserved keys and residues
ChainModValues(chain) ==
  {chain.mods[k][j].value : <<k, j>> \in {x \in (-4 .. -1) \X (1 .. MaxTerminalMods) :
                                            x[2] <= Len(chain.mods[x[1]])}}
  \cup {chain.seq[i].mods[j].value : <<i, j>> \in {x \in (1 .. MaxResidues) \X (1 .. MaxSiteMods) :
                                                    /\ x[1] <= Len(chain.seq)
                                                    /\ x[2] <= Len(chain.seq[x[1]].mods)}}

\* the number of [...] and {...} tokens of toks
RECURSIVE WrittenModCount(_)
WrittenModCount(toks) ==
  IF toks = <<>> THEN 0
  ELSE (IF toks[1][1] \in {"[", "{"} THEN 1 ELSE 0) + WrittenModCount(Tail(toks))

RECURSIVE SumLens(_)
SumLens(lists) == IF lists = <<>> THEN 0 ELSE Len(lists[1]) + SumLens(Tail(lists))

ChainModCount(chain) ==
  Len(chain.mods[-1]) + Len(chain.mods[-2]) + Len(chain.mods[-3]) + Len(chain.mods[-4])
  + SumLens([i \in 1 .. Len(chain.seq) |-> chain.seq[i].mods])

\* C27: a '-' inside a modification body, in [...] or in {...}, is never
\* taken as a terminal separator: the body is parsed intact, the base
\* sequence is the full residue string and the input round-trips
C27_HyphenInBody ==
  (family = "hyphen" /\ (sequence # Null \/ error # Null)) =>
    /\ sequence # Null
    /\ ChainModValues(sequence[1].main) = {HyphenBody}
    /\ ChainModCount(sequence[1].main) = WrittenModCount(tokens)
    /\ Parse(input).baseSequence = WrittenResidues(tokens)
    /\ output # Null => output[1] = input

\* the stripped sequence of every chain of s and the number of modifications
\* under every reserved key and every residue index
ModShape(s) ==
  [c \in 1 .. Len(ChainsOf(s)) |->
     [stripped |-> ToStrippedString(ChainsOf(s)[c]),
      reserved |-> [k \in -4 .. -1 |-> Len(ChainsOf(s)[c].mods[k])],
      site |-> [i \in 1 .. Len(ChainsOf(s)[c].seq) |-> Len(ChainsOf(s)[c].seq[i].mods)]]]

\* t, written by toProforma for the model s, parses to again and is written as t
IsFixedPoint(s, t, again) ==
  /\ again.err = Null
  /\ ToProforma(again) = t
  /\ ModShape(again) = ModShape(s)

\* C28: for every accepted input s, t = fromProforma(s).toProforma() is
\* accepted and is a fixed point, fromProforma(t).toProforma() = t, with the
\* stripped sequence and the number of modifications under every residue
\* index and reserved key of fromProforma(s)
C28_SerializedFixedPoint ==
  (sequence # Null /\ output # Null) =>
    \E again \in {FromProforma(output[1])} : IsFixedPoint(sequence[1], output[1], again)

\* C29: addModifications(modDict) appends, for every key p of modDict that is
\* a residue position (p = 0 included), the modifications of modDict[p] to
\* that residue's mods in list order, and leaves every other residue's mods
\* unchanged
C29_AddModifications ==
  (family = "addMods" /\ result # Null) =>
    /\ Len(sequence[1].main.seq) = Len(result[1].before)
    /\ \A i \in 1 .. Len(result[1].before) :
         sequence[1].main.seq[i].mods =
           result[1].before[i].mods
           \o (IF i - 1 \in DOMAIN result[1].modDict THEN result[1].modDict[i - 1] ELSE <<>>)

\* the positions of seq where the regex of gm matches
MatchedPositions(gm, seq) == {p \in 0 .. Len(seq) - 1 : seq[p + 1] \in gm.regex[1]}

\* the positions some static modification of the list matches
StaticPositions(staticMods, seq) ==
  UNION {MatchedPositions(staticMods[k], seq) : k \in 1 .. Len(staticMods)}

\* gm is placed at position p of the scenario
PlacedAt(scenario, p, gm) ==
  /\ p \in DOMAIN scenario
  /\ \E k \in 1 .. Len(scenario[p]) : scenario[p][k] = gm

GeneratorClaim(seq, staticMods, variableMods, scenarios) ==
  /\ \A s \in 1 .. Len(scenarios), m \in 1 .. Len(staticMods) :
       \A p \in MatchedPositions(staticMods[m], seq) :
          PlacedAt(scenarios[s], p, staticMods[m])
  /\ variableMods = <<>> => Len(scenarios) = 1
  /\ Len(variableMods) = 1 =>
       Len(scenarios) =
         2 ^ Cardinality(MatchedPositions(variableMods[1], seq)
                         \ StaticPositions(staticMods, seq))
  /\ \A i, j \in 1 .. Len(scenarios) : scenarios[i] = scenarios[j] => i = j

\* C30: with parseModPosition = true, generate() places each static
\* modification at every position where its regex matches, in every yielded
\* scenario; with only static modifications it yields exactly one scenario,
\* with a variable modification that matches k non-static positions one per
\* subset of those positions (2^k), and never the same scenario twice
C30_GeneratedScenarios ==
  (family = "generator" /\ result # Null) =>
    GeneratorClaim(input, result[1].staticMods, result[1].variableMods, result[1].scenarios)

====
